---- MODULE Spec2Model ----
(***************************************************************************)
(* A model of the table reconciliation tool: the per-cell transformation   *)
(* pipeline, option extraction and validation, the field layout builder,   *)
(* the comparison and subtraction engines, the aggregation engine, and the *)
(* workspace state kept by the App component.                              *)
(*                                                                         *)
(* A JavaScript string is modelled as a sequence of characters, each       *)
(* character a TLA+ string.  CJK characters are written by their pinyin    *)
(* (xing ming == the two characters of the word for "full name").          *)
(* The value undefined of a missing cell is the constant Undefined.        *)
(***************************************************************************)
EXTENDS FiniteSets, Integers, Sequences, TLC

VARIABLES
    app,            \* the state of the App component: columns, rawRows, fields, rows, importMode
    parsing,        \* the handleFileChange call awaiting its file, with the state it closed over
    steps,          \* the number of handler invocations so far
    nextId,         \* the identifiers createFieldId / createMappingId have handed out, plus one
    lastEdit,       \* the arguments of the updateCell call that was the last step, if it was
    toast,          \* toastMessage, toastTimerRef and the timers window.setTimeout holds
    pipeline,       \* harness of the transformation pipeline: field, value, results
    roundTrip,      \* harness of extractOptions / validateValue on a mapped column
    layout,         \* harness of the field layout builder: sheet, columns, fields
    comparison,     \* harness of buildComparisonResult: two sheets, key, both results
    subtract,       \* App state of the subtraction panel: sheets, key, results
    statistics,     \* harness of the aggregation engine: sheet, config, result rows
    call            \* one call of an engine function: its arguments and its result

workspace == <<app, parsing, steps, nextId, lastEdit, toast>>
harnesses == <<pipeline, roundTrip, layout, comparison, subtract, statistics, call>>
vars == <<workspace, harnesses>>

None == [stage |-> "idle"]
NoEdit == [rowId |-> <<>>]
NotParsing == [isParsing |-> FALSE]

\* useState('') and useRef(null), no timer scheduled, at time 0
NoToast == [message |-> <<>>, timerRef |-> 0, timers |-> {}, calls |-> 0, now |-> 0]

\* the workspace as App constructs it (useState initial values)
InitialApp ==
    [columns |-> <<>>, rawRows |-> <<>>, fields |-> <<>>, rows |-> <<>>,
     importMode |-> "replace"]

EmptyWorkspace ==
    /\ app = InitialApp
    /\ parsing = NotParsing
    /\ steps = 0
    /\ nextId = 1
    /\ lastEdit = NoEdit
    /\ toast = NoToast

-----------------------------------------------------------------------------
(* Strings *)

Undefined == <<"undefined">>

UpperCase == <<"A","B","C","D","E","F","G","H","I","J","K","L","M",
               "N","O","P","Q","R","S","T","U","V","W","X","Y","Z">>
LowerCase == <<"a","b","c","d","e","f","g","h","i","j","k","l","m",
               "n","o","p","q","r","s","t","u","v","w","x","y","z">>
Digits == {"0","1","2","3","4","5","6","7","8","9"}

IsSpace(c) == c \in {" ", "\n", "\r", "\t"}

LowerOf == [c \in {UpperCase[i] : i \in 1..26} |->
               LowerCase[CHOOSE i \in 1..26 : UpperCase[i] = c]]

toLowerChar(c) == IF c \in DOMAIN LowerOf THEN LowerOf[c] ELSE c

toLowerCase(s) == [i \in 1..Len(s) |-> toLowerChar(s[i])]

RECURSIVE trimStart(_)
trimStart(s) ==
    IF s # <<>> /\ IsSpace(Head(s)) THEN trimStart(Tail(s)) ELSE s

RECURSIVE trimEnd(_)
trimEnd(s) ==
    IF s # <<>> /\ IsSpace(s[Len(s)]) THEN trimEnd(SubSeq(s, 1, Len(s) - 1)) ELSE s

trim(s) == trimEnd(trimStart(s))

startsWith(s, p) == Len(s) >= Len(p) /\ SubSeq(s, 1, Len(p)) = p

includes(s, p) ==
    \E i \in 0..(Len(s) - Len(p)) : SubSeq(s, i + 1, i + Len(p)) = p

removeChar(s, c) == SelectSeq(s, LAMBDA x : x # c)

Range(s) == {s[i] : i \in 1..Len(s)}

\* list.includes(x) on an array
listIncludes(list, x) == \E i \in 1..Len(list) : list[i] = x

\* Array.from(new Set(list)): the distinct elements in first-seen order
RECURSIVE uniqueInOrder(_)
uniqueInOrder(list) ==
    IF list = <<>> THEN <<>>
    ELSE LET init == uniqueInOrder(SubSeq(list, 1, Len(list) - 1))
             last == list[Len(list)]
         IN IF listIncludes(init, last) THEN init ELSE Append(init, last)

\* /^https?:\/\//i
HttpPrefix == <<"h","t","t","p",":","/","/">>
HttpsPrefix == <<"h","t","t","p","s",":","/","/">>
hasUrlPrefix(s) ==
    startsWith(toLowerCase(s), HttpPrefix) \/ startsWith(toLowerCase(s), HttpsPrefix)

\* !Number.isNaN(Number(s)) for the literals the modelled alphabet can spell:
\* the empty or all-blank string (0) and signed decimal literals with an
\* optional fraction; everything else is NaN.
isNumeric(s) ==
    LET t == trim(s)
        u == IF t # <<>> /\ Head(t) \in {"+", "-"} THEN Tail(t) ELSE t
        dots == Len(SelectSeq(u, LAMBDA x : x = "."))
        digs == Len(SelectSeq(u, LAMBDA x : x \in Digits))
    IN \/ t = <<>>
       \/ /\ \A i \in 1..Len(u) : u[i] \in Digits \cup {"."}
          /\ dots <= 1
          /\ digs >= 1

\* A record (JS object) is the sequence of its [k, v] entries in insertion order;
\* row[key] of a missing key is undefined.
hasKey(row, key) == \E i \in 1..Len(row) : row[i].k = key
get(row, key) ==
    IF hasKey(row, key) THEN row[CHOOSE i \in 1..Len(row) : row[i].k = key].v
    ELSE Undefined
keysOf(row) == [i \in 1..Len(row) |-> row[i].k]

SeqsUpTo(S, n) == UNION { [1..k -> S] : k \in 0..n }

\* a FieldValueMapping
Rule(id, from, to) == [id |-> id, from |-> from, to |-> to]

\* helpers.ts sanitizeValue
sanitizeValue(value) == IF value = Undefined THEN <<>> ELSE trim(value)

-----------------------------------------------------------------------------
(* transform.ts: the three value stages *)

normalizeForType_alwaysPrefix(value, type) ==
    LET cleaned == trim(value)
    IN IF cleaned = <<>> THEN <<>>
       ELSE IF type = "link" THEN HttpsPrefix \o cleaned
       ELSE cleaned

normalizeForType(value, type) ==
    LET cleaned == trim(value)
    IN IF cleaned = <<>> THEN <<>>
       ELSE IF type = "link" /\ ~hasUrlPrefix(cleaned) THEN HttpsPrefix \o cleaned
       ELSE cleaned

\* a mapping in which the last matching rule wins
applyValueMappings_lastMatch(value, field) ==
    IF value = <<>> \/ field.valueMappings = <<>> THEN value
    ELSE LET normalized == toLowerCase(trim(value))
             hit(i) == toLowerCase(trim(field.valueMappings[i].from)) = normalized
         IN IF \E i \in 1..Len(field.valueMappings) : hit(i)
            THEN LET last == CHOOSE i \in 1..Len(field.valueMappings) :
                                 hit(i) /\ \A j \in (i + 1)..Len(field.valueMappings) : ~hit(j)
                 IN field.valueMappings[last].to
            ELSE value

applyValueMappings(value, field) ==
    IF value = <<>> \/ field.valueMappings = <<>> THEN value
    ELSE LET normalized == toLowerCase(trim(value))
             hit(i) == toLowerCase(trim(field.valueMappings[i].from)) = normalized
         IN IF \E i \in 1..Len(field.valueMappings) : hit(i)
            THEN LET first == CHOOSE i \in 1..Len(field.valueMappings) :
                                  hit(i) /\ \A j \in 1..(i - 1) : ~hit(j)
                 IN field.valueMappings[first].to
            ELSE value

\* value.padStart(n, '0')
padStart(value, n) ==
    IF Len(value) >= n THEN value
    ELSE [i \in 1..(n - Len(value)) |-> "0"] \o value

applyFixedLength(value, field) ==
    IF value = <<>> THEN value
    ELSE IF field.fixedLength = <<>> \/ field.fixedLength[1] <= 0 THEN value
    ELSE padStart(value, field.fixedLength[1])

\* stages 1-3 as applyMapping chains them for one cell
pipelineValue(value, field) ==
    applyFixedLength(applyValueMappings(normalizeForType(value, field.type), field), field)

-----------------------------------------------------------------------------
(* validation.ts *)

NoError == "undefined"

OptionLimit == 20

\* value.split(/[,，、]/): the pieces between separators, empty pieces kept
IsSeparator(c) == c \in {",", "fullwidth-comma", "ideographic-comma"}

RECURSIVE splitOn(_, _, _)
splitOn(s, isSep(_), piece) ==
    IF s = <<>> THEN <<piece>>
    ELSE IF isSep(Head(s)) THEN <<piece>> \o splitOn(Tail(s), isSep, <<>>)
    ELSE splitOn(Tail(s), isSep, Append(piece, Head(s)))

mapTrim(list) == [i \in 1..Len(list) |-> trim(list[i])]
filterNonEmpty(list) == SelectSeq(list, LAMBDA x : x # <<>>)

extractOptions(rows, key, limit) ==
    LET values == filterNonEmpty([i \in 1..Len(rows) |-> sanitizeValue(get(rows[i], key))])
        distinct == uniqueInOrder(values)
    IN SubSeq(distinct, 1, IF Len(distinct) < limit THEN Len(distinct) ELSE limit)

\* a validation that looks for the parts of a multiSelect value before it looks
\* for an empty value
validateValue_partsFirst(value, field) ==
    IF field.type = "multiSelect"
       /\ filterNonEmpty(mapTrim(splitOn(value, IsSeparator, <<>>))) = <<>>
    THEN "no-option"
    ELSE IF value = <<>> THEN (IF field.required THEN "required-empty" ELSE NoError)
    ELSE NoError

validateValue(value, field) ==
    IF value = <<>> THEN (IF field.required THEN "required-empty" ELSE NoError)
    ELSE CASE field.type = "number" ->
                  IF isNumeric(removeChar(value, ",")) THEN NoError ELSE "not-a-number"
           [] field.type = "link" ->
                  IF hasUrlPrefix(value) THEN NoError ELSE "not-a-link"
           [] field.type = "singleSelect" ->
                  IF field.options # <<>> /\ ~listIncludes(field.options, value)
                  THEN "not-an-option" ELSE NoError
           [] field.type = "multiSelect" ->
                  LET parts == filterNonEmpty(mapTrim(splitOn(value, IsSeparator, <<>>)))
                  IN IF parts = <<>> THEN "no-option"
                     ELSE IF field.options # <<>> /\
                             \E i \in 1..Len(parts) : ~listIncludes(field.options, parts[i])
                     THEN "undefined-option"
                     ELSE NoError
           [] OTHER -> NoError

-----------------------------------------------------------------------------
(* validation.ts guessFieldType, helpers.ts getSamples, excel.ts buildColumns *)

SampleTake == 3

normalizeKey(key) == trim(key)

getSamples(rows, key, take) ==
    LET firstRows == SubSeq(rows, 1, IF Len(rows) < take THEN Len(rows) ELSE take)
    IN filterNonEmpty([i \in 1..Len(firstRows) |-> sanitizeValue(get(firstRows[i], key))])

\* a cascade that takes a single repeated value for a singleSelect
guessFieldType_oneDistinct(samples) ==
    LET nonEmpty == filterNonEmpty(samples)
        numericHits == SelectSeq(nonEmpty, LAMBDA x : isNumeric(removeChar(x, ",")))
        urlHits == SelectSeq(nonEmpty, hasUrlPrefix)
        uniqueValues == Range(nonEmpty)
    IN IF samples = <<>> THEN "text"
       ELSE IF numericHits # <<>> /\ 10 * Len(numericHits) >= 8 * Len(nonEmpty) THEN "number"
       ELSE IF urlHits # <<>> /\ 10 * Len(urlHits) >= 4 * Len(nonEmpty) THEN "link"
       ELSE IF Cardinality(uniqueValues) >= 1 /\ Cardinality(uniqueValues) <= 6
            THEN "singleSelect"
       ELSE IF (\E i \in 1..Len(nonEmpty) :
                    listIncludes(nonEmpty[i], ",") \/ listIncludes(nonEmpty[i], "ideographic-comma"))
               /\ Cardinality(uniqueValues) <= 15
            THEN "multiSelect"
       ELSE "text"

guessFieldType(samples) ==
    LET nonEmpty == filterNonEmpty(samples)
        numericHits == SelectSeq(nonEmpty, LAMBDA x : isNumeric(removeChar(x, ",")))
        urlHits == SelectSeq(nonEmpty, hasUrlPrefix)
        uniqueValues == Range(nonEmpty)
    IN IF samples = <<>> THEN "text"
       ELSE IF numericHits # <<>> /\ 10 * Len(numericHits) >= 8 * Len(nonEmpty) THEN "number"
       ELSE IF urlHits # <<>> /\ 10 * Len(urlHits) >= 4 * Len(nonEmpty) THEN "link"
       ELSE IF Cardinality(uniqueValues) > 1 /\ Cardinality(uniqueValues) <= 6
            THEN "singleSelect"
       ELSE IF (\E i \in 1..Len(nonEmpty) :
                    listIncludes(nonEmpty[i], ",") \/ listIncludes(nonEmpty[i], "ideographic-comma"))
               /\ Cardinality(uniqueValues) <= 15
            THEN "multiSelect"
       ELSE "text"

\* the concatenation of a list of lists
RECURSIVE flatten(_)
flatten(lists) == IF lists = <<>> THEN <<>> ELSE Head(lists) \o flatten(Tail(lists))

buildColumns(rows, headerOrder) ==
    LET candidates == headerOrder \o flatten([i \in 1..Len(rows) |-> keysOf(rows[i])])
        orderedKeys == uniqueInOrder(filterNonEmpty(
                           [i \in 1..Len(candidates) |-> normalizeKey(candidates[i])]))
    IN [i \in 1..Len(orderedKeys) |->
           LET samples == getSamples(rows, orderedKeys[i], SampleTake)
           IN [key |-> orderedKeys[i], inferredType |-> guessFieldType(samples),
               sample |-> samples]]

-----------------------------------------------------------------------------
(* constants/index.ts DEFAULT_FIELD_CONFIGS and utils/fieldBuilder.ts *)

XingMing == <<"xing", "ming">>                  \* full name
JiaoYuId == <<"jiao", "yu", "i", "d">>          \* education id
MiMa == <<"mi", "ma">>                          \* password
YanZhengMa == <<"yan", "zheng", "ma">>          \* verification code
DengLuYanZhengMa == <<"deng", "lu">> \o YanZhengMa
JueSe == <<"jue", "se">>                        \* role
ShenFen == <<"shen", "fen">>                    \* identity
XueSheng == <<"xue", "sheng">>                  \* student
LaoShi == <<"lao", "shi">>                      \* teacher

PRIMARY_FIELD_NAME == JiaoYuId

\* options and presets a template leaves unspecified are <<>> with has... FALSE
DEFAULT_FIELD_CONFIGS ==
    << [label |-> XingMing, type |-> "text", keywords |-> <<XingMing>>,
        hasOptions |-> FALSE, options |-> <<>>, valueMappingPresets |-> <<>>],
       [label |-> JiaoYuId, type |-> "text", keywords |-> <<JiaoYuId>>,
        hasOptions |-> FALSE, options |-> <<>>, valueMappingPresets |-> <<>>],
       [label |-> MiMa, type |-> "number",
        keywords |-> <<DengLuYanZhengMa, YanZhengMa, MiMa>>,
        hasOptions |-> FALSE, options |-> <<>>, valueMappingPresets |-> <<>>],
       [label |-> ShenFen, type |-> "singleSelect", keywords |-> <<JueSe, ShenFen>>,
        hasOptions |-> TRUE, options |-> <<XueSheng, LaoShi>>,
        valueMappingPresets |->
            << [from |-> <<"S">>, to |-> XueSheng], [from |-> <<"s">>, to |-> XueSheng],
               [from |-> XueSheng, to |-> XueSheng],
               [from |-> <<"T">>, to |-> LaoShi], [from |-> <<"t">>, to |-> LaoShi],
               [from |-> LaoShi, to |-> LaoShi] >>] >>

IsSelect(type) == type \in {"singleSelect", "multiSelect"}

\* does the column's key contain one of the keywords
matchesKeywords(column, keywords) ==
    \E k \in 1..Len(keywords) :
        includes(toLowerCase(normalizeKey(column.key)), toLowerCase(normalizeKey(keywords[k])))

\* index of the first matching column, 0 when there is none
findColumnByKeywords(columns, keywords) ==
    LET matching == { i \in 1..Len(columns) : matchesKeywords(columns[i], keywords) }
    IN IF matching = {} THEN 0
       ELSE CHOOSE i \in matching : \A j \in matching : i <= j

\* createFieldId() is a fresh identifier: the caller passes the next unused one
buildFieldFromColumn(column, rows, id) ==
    [id |-> id, name |-> column.key, type |-> column.inferredType,
     sourceKey |-> column.key, required |-> FALSE,
     options |-> IF IsSelect(column.inferredType)
                 THEN extractOptions(rows, column.key, OptionLimit) ELSE <<>>,
     valueMappings |-> <<>>, fixedLength |-> <<>>]

buildDefaultFields(columns, rows, firstId) ==
    LET columnOf == [c \in 1..Len(DEFAULT_FIELD_CONFIGS) |->
                        findColumnByKeywords(columns, DEFAULT_FIELD_CONFIGS[c].keywords)]
        configIndexes == [c \in 1..Len(DEFAULT_FIELD_CONFIGS) |-> c]
        found == SelectSeq(configIndexes, LAMBDA c : columnOf[c] # 0)
    IN [j \in 1..Len(found) |->
           LET config == DEFAULT_FIELD_CONFIGS[found[j]]
               column == columns[columnOf[found[j]]]
           IN [buildFieldFromColumn(column, rows, firstId + j - 1) EXCEPT
                  !.name = config.label,
                  !.type = config.type,
                  !.options = IF IsSelect(config.type)
                              THEN (IF config.hasOptions THEN config.options
                                    ELSE extractOptions(rows, column.key, OptionLimit))
                              ELSE <<>>,
                  !.valueMappings = [m \in 1..Len(config.valueMappingPresets) |->
                                         Rule(m, config.valueMappingPresets[m].from,
                                              config.valueMappingPresets[m].to)]]]

buildFallbackFields(columns, rows, firstId) ==
    [i \in 1..Len(columns) |-> buildFieldFromColumn(columns[i], rows, firstId + i - 1)]

buildImportedFieldLayout_templateOrder(columns, rows, firstId) ==
    LET fallbackFields == buildFallbackFields(columns, rows, firstId)
        defaultFields == buildDefaultFields(columns, rows, firstId + Len(columns))
    IN IF defaultFields = <<>> THEN fallbackFields ELSE defaultFields

buildImportedFieldLayout(columns, rows, firstId) ==
    IF columns = <<>> THEN <<>>
    ELSE LET fallbackFields == buildFallbackFields(columns, rows, firstId)
             defaultFields == buildDefaultFields(columns, rows, firstId + Len(columns))
             \* defaultBySourceKey.get(key): the last default field set under the key
             hasDefault(key) ==
                 \E d \in 1..Len(defaultFields) :
                     defaultFields[d].sourceKey # <<>> /\ defaultFields[d].sourceKey = key
             defaultBySourceKey(key) ==
                 defaultFields[CHOOSE d \in 1..Len(defaultFields) :
                     /\ defaultFields[d].sourceKey = key
                     /\ \A e \in (d + 1)..Len(defaultFields) : defaultFields[e].sourceKey # key]
         IN IF defaultFields = <<>> THEN fallbackFields
            ELSE [i \in 1..Len(fallbackFields) |->
                     IF fallbackFields[i].sourceKey = <<>> THEN fallbackFields[i]
                     ELSE IF hasDefault(fallbackFields[i].sourceKey)
                          THEN defaultBySourceKey(fallbackFields[i].sourceKey)
                          ELSE fallbackFields[i]]

-----------------------------------------------------------------------------
(* a.localeCompare(b, 'zh-Hans-CN', { numeric: true }) and Array.prototype.sort *)

\* primary collation order of the characters the model's strings are spelt with:
\* blanks and punctuation, digits, Latin letters, then Han characters by pinyin
CollationOrder ==
    << "\t", "\n", "\r", " ", "-", ",", ".", ":", "/", "|",
       "0", "1", "2", "3", "4", "5", "6", "7", "8", "9" >> \o LowerCase \o
    << "bei", "bu", "cai", "hao", "li", "men", "ming", "san", "si", "wu", "xing",
       "zhang", "zhu", "zu" >>

RankOf == [c \in {CollationOrder[i] : i \in 1..Len(CollationOrder)} |->
              CHOOSE i \in 1..Len(CollationOrder) : CollationOrder[i] = c]

rank(c) == RankOf[toLowerChar(c)]

sign(n) == IF n < 0 THEN -1 ELSE IF n > 0 THEN 1 ELSE 0

digitValue(c) == RankOf[c] - RankOf["0"]

RECURSIVE digitRunLength(_)
digitRunLength(s) ==
    IF s # <<>> /\ Head(s) \in Digits THEN 1 + digitRunLength(Tail(s)) ELSE 0

RECURSIVE numberOf(_)
numberOf(ds) ==
    IF ds = <<>> THEN 0
    ELSE 10 * numberOf(SubSeq(ds, 1, Len(ds) - 1)) + digitValue(ds[Len(ds)])

\* primary level: letters without case, runs of digits by their numeric value
RECURSIVE comparePrimary(_, _)
comparePrimary(a, b) ==
    IF a = <<>> \/ b = <<>> THEN sign(Len(a) - Len(b))
    ELSE IF Head(a) \in Digits /\ Head(b) \in Digits
    THEN LET la == digitRunLength(a)
             lb == digitRunLength(b)
             d == numberOf(SubSeq(a, 1, la)) - numberOf(SubSeq(b, 1, lb))
         IN IF d # 0 THEN sign(d)
            ELSE comparePrimary(SubSeq(a, la + 1, Len(a)), SubSeq(b, lb + 1, Len(b)))
    ELSE IF rank(Head(a)) # rank(Head(b)) THEN sign(rank(Head(a)) - rank(Head(b)))
    ELSE comparePrimary(Tail(a), Tail(b))

\* tertiary level: at the first position where the case differs, lower case first
RECURSIVE compareCase(_, _)
compareCase(a, b) ==
    IF a = <<>> \/ b = <<>> THEN 0
    ELSE IF Head(a) = Head(b) \/ toLowerChar(Head(a)) # toLowerChar(Head(b))
    THEN compareCase(Tail(a), Tail(b))
    ELSE IF toLowerChar(Head(a)) = Head(a) THEN -1 ELSE 1

localeCompare(a, b) ==
    IF comparePrimary(a, b) # 0 THEN comparePrimary(a, b) ELSE compareCase(a, b)

\* list.sort(compare): stable, so an element is preceded by the elements below
\* it and by the elements level with it that came earlier in the list
sortWith(list, compare(_, _)) ==
    LET place(i) == 1 + Cardinality({ j \in 1..Len(list) :
                            \/ compare(list[j], list[i]) < 0
                            \/ compare(list[j], list[i]) = 0 /\ j < i })
    IN [p \in 1..Len(list) |-> list[CHOOSE i \in 1..Len(list) : place(i) = p]]

-----------------------------------------------------------------------------
(* transform.ts buildKeyIndex, buildComparisonResult *)

\* an index that also takes the rows without a key value, under the empty key
RECURSIVE buildKeyIndex_indexEmpty(_, _)
buildKeyIndex_indexEmpty(rows, key) ==
    IF rows = <<>> THEN [map |-> <<>>, duplicates |-> <<>>, missingKey |-> 0]
    ELSE LET index == buildKeyIndex_indexEmpty(SubSeq(rows, 1, Len(rows) - 1), key)
             row == rows[Len(rows)]
             keyValue == sanitizeValue(get(row, key))
         IN IF hasKey(index.map, keyValue)
            THEN [index EXCEPT !.duplicates =
                     IF listIncludes(@, keyValue) THEN @ ELSE Append(@, keyValue)]
            ELSE [index EXCEPT !.map = Append(@, [k |-> keyValue, v |-> row]),
                               !.missingKey = IF keyValue = <<>> THEN @ + 1 ELSE @]

\* an index in which a later row takes the place of an earlier one of its key
RECURSIVE buildKeyIndex_lastWins(_, _)
buildKeyIndex_lastWins(rows, key) ==
    IF rows = <<>> THEN [map |-> <<>>, duplicates |-> <<>>, missingKey |-> 0]
    ELSE LET index == buildKeyIndex_lastWins(SubSeq(rows, 1, Len(rows) - 1), key)
             row == rows[Len(rows)]
             keyValue == sanitizeValue(get(row, key))
         IN IF keyValue = <<>> THEN [index EXCEPT !.missingKey = @ + 1]
            ELSE IF hasKey(index.map, keyValue)
            THEN [index EXCEPT
                     !.duplicates = IF listIncludes(@, keyValue) THEN @ ELSE Append(@, keyValue),
                     !.map = [i \in 1..Len(@) |->
                                 IF @[i].k = keyValue THEN [k |-> keyValue, v |-> row]
                                 ELSE @[i]]]
            ELSE [index EXCEPT !.map = Append(@, [k |-> keyValue, v |-> row])]

\* a Map is the sequence of its [k, v] entries in insertion order
RECURSIVE buildKeyIndex(_, _)
buildKeyIndex(rows, key) ==
    IF rows = <<>> THEN [map |-> <<>>, duplicates |-> <<>>, missingKey |-> 0]
    ELSE LET index == buildKeyIndex(SubSeq(rows, 1, Len(rows) - 1), key)
             row == rows[Len(rows)]
             keyValue == sanitizeValue(get(row, key))
         IN IF keyValue = <<>> THEN [index EXCEPT !.missingKey = @ + 1]
            ELSE IF hasKey(index.map, keyValue)
            THEN [index EXCEPT !.duplicates =
                     IF listIncludes(@, keyValue) THEN @ ELSE Append(@, keyValue)]
            ELSE [index EXCEPT !.map = Append(@, [k |-> keyValue, v |-> row])]

sortByKey(a, b) == localeCompare(a, b)
sortByRowKey(a, b) == sortByKey(a.key, b.key)

\* diffs that stop at the first column that differs
rowDiffs_firstOnly(baseRow, targetRow, comparedColumns) ==
    LET differs(column) ==
            sanitizeValue(get(baseRow, column)) # sanitizeValue(get(targetRow, column))
        columns == SelectSeq(comparedColumns, differs)
    IN IF columns = <<>> THEN <<>>
       ELSE << [column |-> columns[1],
                baseValue |-> sanitizeValue(get(baseRow, columns[1])),
                targetValue |-> sanitizeValue(get(targetRow, columns[1]))] >>

\* the diffs of two rows over the compared columns
rowDiffs(baseRow, targetRow, comparedColumns) ==
    LET differs(column) ==
            sanitizeValue(get(baseRow, column)) # sanitizeValue(get(targetRow, column))
        columns == SelectSeq(comparedColumns, differs)
    IN [i \in 1..Len(columns) |->
           [column |-> columns[i],
            baseValue |-> sanitizeValue(get(baseRow, columns[i])),
            targetValue |-> sanitizeValue(get(targetRow, columns[i]))]]

\* a comparison that goes on to diff a base row without a target row against
\* an empty record
buildComparisonResult_diffUnmatched(base, target, key) ==
    LET baseIndex == buildKeyIndex(base.rows, key)
        targetIndex == buildKeyIndex(target.rows, key)
        comparedColumns == uniqueInOrder(base.headers \o target.headers)
        baseKeys == keysOf(baseIndex.map)
        onlyInBase == SelectSeq(baseKeys, LAMBDA k : ~hasKey(targetIndex.map, k))
        differences == [i \in 1..Len(baseKeys) |->
                           [key |-> baseKeys[i],
                            diffs |-> rowDiffs(get(baseIndex.map, baseKeys[i]),
                                               IF hasKey(targetIndex.map, baseKeys[i])
                                               THEN get(targetIndex.map, baseKeys[i])
                                               ELSE <<>>,
                                               comparedColumns)]]
        mismatchedRows == SelectSeq(differences, LAMBDA d : d.diffs # <<>>)
        onlyInTarget == SelectSeq(keysOf(targetIndex.map),
                                  LAMBDA k : ~hasKey(baseIndex.map, k))
    IN [onlyInBase |-> sortWith(onlyInBase, sortByKey),
        onlyInTarget |-> sortWith(onlyInTarget, sortByKey),
        mismatchedRows |-> sortWith(mismatchedRows, sortByRowKey),
        duplicateKeys |-> [base |-> baseIndex.duplicates, target |-> targetIndex.duplicates],
        missingKeyRows |-> [base |-> baseIndex.missingKey, target |-> targetIndex.missingKey],
        comparedColumns |-> comparedColumns]

buildComparisonResult_unsortedTarget(base, target, key) ==
    LET baseIndex == buildKeyIndex(base.rows, key)
        targetIndex == buildKeyIndex(target.rows, key)
        comparedColumns == uniqueInOrder(base.headers \o target.headers)
        baseKeys == keysOf(baseIndex.map)
        onlyInBase == SelectSeq(baseKeys, LAMBDA k : ~hasKey(targetIndex.map, k))
        shared == SelectSeq(baseKeys, LAMBDA k : hasKey(targetIndex.map, k))
        differences == [i \in 1..Len(shared) |->
                           [key |-> shared[i],
                            diffs |-> rowDiffs(get(baseIndex.map, shared[i]),
                                               get(targetIndex.map, shared[i]),
                                               comparedColumns)]]
        mismatchedRows == SelectSeq(differences, LAMBDA d : d.diffs # <<>>)
        onlyInTarget == SelectSeq(keysOf(targetIndex.map),
                                  LAMBDA k : ~hasKey(baseIndex.map, k))
    IN [onlyInBase |-> sortWith(onlyInBase, sortByKey),
        onlyInTarget |-> onlyInTarget,
        mismatchedRows |-> sortWith(mismatchedRows, sortByRowKey),
        duplicateKeys |-> [base |-> baseIndex.duplicates, target |-> targetIndex.duplicates],
        missingKeyRows |-> [base |-> baseIndex.missingKey, target |-> targetIndex.missingKey],
        comparedColumns |-> comparedColumns]

buildComparisonResult(base, target, key) ==
    LET baseIndex == buildKeyIndex(base.rows, key)
        targetIndex == buildKeyIndex(target.rows, key)
        comparedColumns == uniqueInOrder(base.headers \o target.headers)
        baseKeys == keysOf(baseIndex.map)
        \* baseIndex.map.forEach: a key without a target row goes to onlyInBase,
        \* any other key is diffed and kept when some column differs
        onlyInBase == SelectSeq(baseKeys, LAMBDA k : ~hasKey(targetIndex.map, k))
        shared == SelectSeq(baseKeys, LAMBDA k : hasKey(targetIndex.map, k))
        differences == [i \in 1..Len(shared) |->
                           [key |-> shared[i],
                            diffs |-> rowDiffs(get(baseIndex.map, shared[i]),
                                               get(targetIndex.map, shared[i]),
                                               comparedColumns)]]
        mismatchedRows == SelectSeq(differences, LAMBDA d : d.diffs # <<>>)
        onlyInTarget == SelectSeq(keysOf(targetIndex.map),
                                  LAMBDA k : ~hasKey(baseIndex.map, k))
    IN [onlyInBase |-> sortWith(onlyInBase, sortByKey),
        onlyInTarget |-> sortWith(onlyInTarget, sortByKey),
        mismatchedRows |-> sortWith(mismatchedRows, sortByRowKey),
        duplicateKeys |-> [base |-> baseIndex.duplicates, target |-> targetIndex.duplicates],
        missingKeyRows |-> [base |-> baseIndex.missingKey, target |-> targetIndex.missingKey],
        comparedColumns |-> comparedColumns]

-----------------------------------------------------------------------------
(* Harness of the transformation pipeline: one field configuration, one value *)

FieldTypes == {"text", "number", "link", "singleSelect", "multiSelect", "attachment"}

PipelineMappings ==
    { <<>>,
      <<Rule(1, <<"a">>, <<"b">>), Rule(2, <<"b">>, <<"c">>)>>,
      <<Rule(1, <<"S">>, <<"x", " ">>)>> }

PipelineLengths == { <<>>, <<0>>, <<3>>, <<10>> }

PipelineInputs ==
    { <<>>, <<" ">>, <<"a">>, <<" ", "a", " ">>, <<"b">>, <<"s">>, <<"1", "2">>,
      <<"a", ".", "b">>, <<"h","t","t","p",":","/","/","a">>,
      <<"H","T","T","P","S",":","/","/","a">> }

PipelineFields ==
    { [id |-> 1, name |-> <<"f">>, type |-> t, sourceKey |-> <<"f">>, required |-> FALSE,
       options |-> <<>>, valueMappings |-> m, fixedLength |-> n] :
      t \in FieldTypes, m \in PipelineMappings, n \in PipelineLengths }

InitPipeline ==
    /\ pipeline \in { [stage |-> "input", field |-> f, value |-> v, once |-> <<>>, twice |-> <<>>] :
                        f \in PipelineFields, v \in PipelineInputs }
    /\ roundTrip = None
    /\ layout = None
    /\ comparison = None
    /\ subtract = None
    /\ statistics = None
    /\ EmptyWorkspace
    /\ call = None

RunPipeline ==
    /\ pipeline.stage = "input"
    /\ pipeline' = [pipeline EXCEPT !.stage = "once",
                                    !.once = pipelineValue(pipeline.value, pipeline.field)]
    /\ UNCHANGED <<workspace, roundTrip, layout, comparison, subtract, statistics, call>>

RunPipelineAgain ==
    /\ pipeline.stage = "once"
    /\ pipeline' = [pipeline EXCEPT !.stage = "twice",
                                    !.twice = pipelineValue(pipeline.once, pipeline.field)]
    /\ UNCHANGED <<workspace, roundTrip, layout, comparison, subtract, statistics, call>>

NextPipeline == RunPipeline \/ RunPipelineAgain

SpecPipeline == InitPipeline /\ [][NextPipeline]_vars

\* C4 (as stated): running stages 1-3 on their own output returns that output,
\* for every field configuration and every input.
C4_PipelineIdempotent ==
    pipeline.stage = "twice" => pipeline.twice = pipeline.once

NoPaddedLink(field) == ~(field.type = "link" /\ field.fixedLength # <<>>)

\* C4 (amended): running stages 1-3 on their own output returns that output
\* when the field has no value-mapping rules and is not a link field with a
\* fixedLength.
C4_IdempotentWithoutRules ==
    (pipeline.stage = "twice" /\ pipeline.field.valueMappings = <<>>
        /\ NoPaddedLink(pipeline.field))
    => pipeline.twice = pipeline.once

C4_Witness ==
    /\ pipeline.stage = "twice"
    /\ pipeline.field.valueMappings = <<>>
    /\ pipeline.field.type = "link"
    /\ pipeline.field.fixedLength = <<>>
    /\ pipeline.once # pipeline.value
    /\ pipeline.twice = pipeline.once

-----------------------------------------------------------------------------
(* Harness of the option round trip: a select field and the column of its cells *)

MaxCells == 2

RoundTripMappings == { <<>>, <<Rule(1, <<"s">>, <<"a", ",", "b">>)>> }

RoundTripInputs == { <<>>, <<"a">>, <<" ", "b">>, <<"s">>, <<"a", ",", "b">> }

RoundTripFields ==
    { [id |-> 1, name |-> <<"f">>, type |-> t, sourceKey |-> <<"f">>, required |-> FALSE,
       options |-> <<>>, valueMappings |-> m, fixedLength |-> n] :
      t \in {"singleSelect", "multiSelect"}, m \in RoundTripMappings,
      n \in { <<>>, <<2>> } }

InitRoundTrip ==
    /\ roundTrip \in { [stage |-> "input", field |-> f, column |-> c,
                         mapped |-> <<>>, errors |-> <<>>] :
                         f \in RoundTripFields, c \in SeqsUpTo(RoundTripInputs, MaxCells) }
    /\ pipeline = None
    /\ layout = None
    /\ comparison = None
    /\ subtract = None
    /\ statistics = None
    /\ EmptyWorkspace
    /\ call = None

\* the mapped output value of every cell of the column (App.tsx applyMapping)
MapColumn ==
    /\ roundTrip.stage = "input"
    /\ roundTrip' = [roundTrip EXCEPT
           !.stage = "mapped",
           !.mapped = [i \in 1..Len(roundTrip.column) |->
                          pipelineValue(sanitizeValue(roundTrip.column[i]), roundTrip.field)]]
    /\ UNCHANGED <<workspace, pipeline, layout, comparison, subtract, statistics, call>>

\* the field's options become extractOptions of its own output column; every
\* output value is then validated against the field
FillOptionsAndValidate ==
    /\ roundTrip.stage = "mapped"
    /\ LET outRows == [i \in 1..Len(roundTrip.mapped) |->
                          <<[k |-> roundTrip.field.name, v |-> roundTrip.mapped[i]]>>]
           field == [roundTrip.field EXCEPT
                        !.options = extractOptions(outRows, roundTrip.field.name, OptionLimit)]
       IN roundTrip' = [roundTrip EXCEPT
              !.stage = "validated",
              !.field = field,
              !.errors = [i \in 1..Len(roundTrip.mapped) |->
                             validateValue(roundTrip.mapped[i], field)]]
    /\ UNCHANGED <<workspace, pipeline, layout, comparison, subtract, statistics, call>>

NextRoundTrip == MapColumn \/ FillOptionsAndValidate

SpecRoundTrip == InitRoundTrip /\ [][NextRoundTrip]_vars

\* C5: with the option list set to extractOptions of the field's own mapped
\* output column, validateValue reports no error for any mapped output value.
C5_OptionRoundTrip ==
    roundTrip.stage = "validated" =>
        \A i \in 1..Len(roundTrip.errors) : roundTrip.errors[i] = NoError

-----------------------------------------------------------------------------
(* Harness of the field layout builder: a parsed sheet, its columns, the layout *)

MaxColumns == 2

BeiZhu == <<"bei", "zhu">>                      \* remark

\* column keys: hit by one template, by two templates, by the same template as
\* another key, or by none
LayoutKeys ==
    { XingMing, XueSheng \o XingMing, <<"jiao", "yu", "I", "D">>, YanZhengMa,
      XingMing \o ShenFen, JueSe, BeiZhu }

\* the cells of one column, top to bottom: two options, or two numbers
LayoutColumnCells == { << <<"S">>, <<"T">> >>, << <<"1">>, <<"2">> >> }

DistinctSeqs(S, n) ==
    { q \in SeqsUpTo(S, n) : \A i, j \in 1..Len(q) : i # j => q[i] # q[j] }

\* the rows of a sheet with the given headers: every row has every header, and
\* a sheet without headers has no rows
SheetRows(headers, columnCells) ==
    IF headers = <<>> THEN { <<>> }
    ELSE { [r \in DOMAIN m[1] |-> [c \in 1..Len(headers) |-> [k |-> headers[c], v |-> m[c][r]]]] :
             m \in [1..Len(headers) -> columnCells] }

InitLayout ==
    /\ \E headers \in DistinctSeqs(LayoutKeys, MaxColumns) :
         \E rows \in SheetRows(headers, LayoutColumnCells) :
            layout = [stage |-> "input", headers |-> headers, rows |-> rows,
                      columns |-> <<>>, fields |-> <<>>]
    /\ pipeline = None
    /\ roundTrip = None
    /\ comparison = None
    /\ subtract = None
    /\ statistics = None
    /\ EmptyWorkspace
    /\ call = None

RunBuildColumns ==
    /\ layout.stage = "input"
    /\ layout' = [layout EXCEPT !.stage = "columns",
                                !.columns = buildColumns(layout.rows, layout.headers)]
    /\ UNCHANGED <<workspace, pipeline, roundTrip, comparison, subtract, statistics, call>>

RunBuildLayout ==
    /\ layout.stage = "columns"
    /\ layout' = [layout EXCEPT !.stage = "fields",
                                !.fields = buildImportedFieldLayout(layout.columns, layout.rows, 1)]
    /\ UNCHANGED <<workspace, pipeline, roundTrip, comparison, subtract, statistics, call>>

NextLayout == RunBuildColumns \/ RunBuildLayout

SpecLayout == InitLayout /\ [][NextLayout]_vars

\* the templates that pick the column at index i as their first matching column
TemplatesHitting(columns, i) ==
    { c \in 1..Len(DEFAULT_FIELD_CONFIGS) :
        findColumnByKeywords(columns, DEFAULT_FIELD_CONFIGS[c].keywords) = i }

\* C10: the layout has one field per column, in column order, the i-th field
\* having the i-th column's key as sourceKey; a column hit by a template carries
\* that template's label, type and presets, any other column its fallback field
\* (own key as name, inferred type, no rules); the layout is empty only for zero
\* columns.
C10_LayoutGuarantee ==
    layout.stage = "fields" =>
        /\ Len(layout.fields) = Len(layout.columns)
        /\ (layout.fields = <<>>) <=> (layout.columns = <<>>)
        /\ \A i \in 1..Len(layout.columns) :
             LET field == layout.fields[i]
                 column == layout.columns[i]
             IN /\ field.sourceKey = column.key
                /\ IF TemplatesHitting(layout.columns, i) # {}
                   THEN \E c \in TemplatesHitting(layout.columns, i) :
                            /\ field.name = DEFAULT_FIELD_CONFIGS[c].label
                            /\ field.type = DEFAULT_FIELD_CONFIGS[c].type
                            /\ Len(field.valueMappings) =
                                   Len(DEFAULT_FIELD_CONFIGS[c].valueMappingPresets)
                   ELSE /\ field.name = column.key
                        /\ field.type = column.inferredType
                        /\ field.valueMappings = <<>>
        /\ \A i, j \in 1..Len(layout.fields) :
             i # j => layout.fields[i].id # layout.fields[j].id

\* a layout where a later template hits the first column and an earlier template
\* the second, next to which there could be a column no template hits
C10_Witness ==
    /\ layout.stage = "fields"
    /\ Len(layout.columns) = 2
    /\ TemplatesHitting(layout.columns, 1) = {4}
    /\ TemplatesHitting(layout.columns, 2) = {1}
    /\ layout.fields[1].name = ShenFen
    /\ layout.fields[2].name = XingMing

-----------------------------------------------------------------------------
(* App.tsx handleRunSubtract: the key maps and the three partitions *)

\* Map.set(keyValue, row) for every row with a non-empty key: a repeated key
\* keeps its place in the map and takes the later row
RECURSIVE subtractKeyMap_keepAll(_, _)
subtractKeyMap_keepAll(rows, key) ==
    IF rows = <<>> THEN <<>>
    ELSE LET map == subtractKeyMap_keepAll(SubSeq(rows, 1, Len(rows) - 1), key)
             row == rows[Len(rows)]
             keyValue == sanitizeValue(get(row, key))
         IN IF keyValue = <<>> THEN map ELSE Append(map, [k |-> keyValue, v |-> row])

RECURSIVE subtractKeyMap(_, _)
subtractKeyMap(rows, key) ==
    IF rows = <<>> THEN <<>>
    ELSE LET map == subtractKeyMap(SubSeq(rows, 1, Len(rows) - 1), key)
             row == rows[Len(rows)]
             keyValue == sanitizeValue(get(row, key))
         IN IF keyValue = <<>> THEN map
            ELSE IF hasKey(map, keyValue)
            THEN [i \in 1..Len(map) |->
                     IF map[i].k = keyValue THEN [k |-> keyValue, v |-> row] ELSE map[i]]
            ELSE Append(map, [k |-> keyValue, v |-> row])

valuesOf(map) == [i \in 1..Len(map) |-> map[i].v]

\* onlyInARows, onlyInBRows, commonRows
subtractPartitions(base, target, key) ==
    LET baseKeys == subtractKeyMap(base.rows, key)
        targetKeys == subtractKeyMap(target.rows, key)
    IN [onlyInA |-> valuesOf(SelectSeq(baseKeys, LAMBDA e : ~hasKey(targetKeys, e.k))),
        onlyInB |-> valuesOf(SelectSeq(targetKeys, LAMBDA e : ~hasKey(baseKeys, e.k))),
        common |-> valuesOf(SelectSeq(baseKeys, LAMBDA e : hasKey(targetKeys, e.k)))]

-----------------------------------------------------------------------------
(* Harness of the comparison engine: two parsed sheets and a key column *)

MaxSheetRows == 2

\* the rows of a sheet with a key column: one without a key value, two that
\* share a key and differ in the other column, and one whose key sorts after
\* theirs numerically and before them character by character
KeyedRow(key, other) == << [k |-> JiaoYuId, v |-> key], [k |-> BeiZhu, v |-> other] >>
KeyedRows ==
    { KeyedRow(<<>>, <<"x">>), KeyedRow(<<"2">>, <<"x">>), KeyedRow(<<"2">>, <<"y">>),
      KeyedRow(<<"1", "0">>, <<"x">>) }
UnkeyedRows == { << [k |-> BeiZhu, v |-> <<"x">>] >>, << [k |-> BeiZhu, v |-> <<"y">>] >> }

\* ParsedSheetData: the rows hold a trimmed string under every header and no
\* row is blank; one kind of sheet has the key column and one does not
KeyedSheets(n) ==
    { [headers |-> <<JiaoYuId, BeiZhu>>, rows |-> rows] : rows \in [1..n -> KeyedRows] }

UnkeyedSheets(n) ==
    { [headers |-> <<BeiZhu>>, rows |-> rows] : rows \in [1..n -> UnkeyedRows] }

SheetsOf(max) == UNION { KeyedSheets(n) \cup UnkeyedSheets(n) : n \in 1..max }

Sheets == SheetsOf(MaxSheetRows)

\* sheets of three columns, whose rows of one key differ in two of them
WideHeaders == <<JiaoYuId, BeiZhu, MiMa>>
WideRow(key, other, code) == KeyedRow(key, other) \o << [k |-> MiMa, v |-> code] >>
WideRows == { WideRow(<<"2">>, <<"x">>, <<"7">>), WideRow(<<"2">>, <<"y">>, <<"8">>) }
WideSheets ==
    UNION { { [headers |-> WideHeaders, rows |-> rows] : rows \in [1..n -> WideRows] } :
              n \in 1..MaxSheetRows }

ComparisonSheets == Sheets \cup WideSheets

InitComparison ==
    /\ comparison \in { [stage |-> "input", base |-> a, target |-> b, key |-> k,
                         index |-> <<>>, forward |-> <<>>, backward |-> <<>>,
                         partitions |-> <<>>] :
                         a \in ComparisonSheets, b \in ComparisonSheets,
                         k \in {JiaoYuId, BeiZhu} }
    /\ pipeline = None
    /\ roundTrip = None
    /\ layout = None
    /\ subtract = None
    /\ statistics = None
    /\ EmptyWorkspace
    /\ call = None

\* buildComparisonResult(A, B, key) and buildComparisonResult(B, A, key), and
\* the two key indexes buildComparisonResult(A, B, key) starts from
RunComparison ==
    /\ comparison.stage = "input"
    /\ comparison' = [comparison EXCEPT
           !.stage = "compared",
           !.index = [base |-> buildKeyIndex(comparison.base.rows, comparison.key),
                      target |-> buildKeyIndex(comparison.target.rows, comparison.key)],
           !.forward = buildComparisonResult(comparison.base, comparison.target, comparison.key),
           !.backward = buildComparisonResult(comparison.target, comparison.base, comparison.key)]
    /\ UNCHANGED <<workspace, pipeline, roundTrip, layout, subtract, statistics, call>>

\* the partitioning of handleRunSubtract on the same two sheets and key
RunPartition ==
    /\ comparison.stage = "compared"
    /\ comparison' = [comparison EXCEPT
           !.stage = "partitioned",
           !.partitions = subtractPartitions(comparison.base, comparison.target, comparison.key)]
    /\ UNCHANGED <<workspace, pipeline, roundTrip, layout, subtract, statistics, call>>

NextComparison == RunComparison \/ RunPartition

SpecComparison == InitComparison /\ [][NextComparison]_vars

\* C3: onlyInBase of comparing A with B is, key for key and in the same order,
\* onlyInTarget of comparing B with A.
C3_ComparisonSymmetry ==
    comparison.stage = "compared" =>
        comparison.forward.onlyInBase = comparison.backward.onlyInTarget

\* two keys unique to the base sheet that the sort had to swap
C3_Witness ==
    /\ comparison.stage = "compared"
    /\ comparison.forward.onlyInBase = << <<"2">>, <<"1", "0">> >>
    /\ keysOf(buildKeyIndex(comparison.base.rows, comparison.key).map)
           = << <<"1", "0">>, <<"2">> >>
    /\ comparison.backward.onlyInTarget = comparison.forward.onlyInBase

\* no row of the sheet has a non-empty sanitized value under the key: the
\* column is absent or empty throughout
keyless(sheet, key) ==
    \A i \in 1..Len(sheet.rows) : sanitizeValue(get(sheet.rows[i], key)) = <<>>

\* what the comparison reports when the sheet on one side is keyless
zeroOverlap(sheet, index, otherIndex, missing, own, others, mismatched) ==
    /\ missing = Len(sheet.rows)
    /\ index.map = <<>>
    /\ mismatched = <<>>
    /\ own = <<>>
    /\ Len(others) = Len(otherIndex.map)
    /\ Range(others) = Range(keysOf(otherIndex.map))

\* C11: when the key column is absent from, or empty in every row of, one
\* sheet, every row of that sheet is counted in missingKeyRows of its side, its
\* key index is empty, mismatchedRows is empty, every indexed key of the other
\* sheet is reported as unique to the other side, and the common partition of
\* the subtraction is empty.
C11_KeylessSideHasNoOverlap ==
    comparison.stage = "partitioned" =>
        LET baseIndex == buildKeyIndex(comparison.base.rows, comparison.key)
            targetIndex == buildKeyIndex(comparison.target.rows, comparison.key)
            result == comparison.forward
        IN /\ keyless(comparison.base, comparison.key) =>
                /\ zeroOverlap(comparison.base, baseIndex, targetIndex,
                               result.missingKeyRows.base, result.onlyInBase,
                               result.onlyInTarget, result.mismatchedRows)
                /\ comparison.partitions.common = <<>>
           /\ keyless(comparison.target, comparison.key) =>
                /\ zeroOverlap(comparison.target, targetIndex, baseIndex,
                               result.missingKeyRows.target, result.onlyInTarget,
                               result.onlyInBase, result.mismatchedRows)
                /\ comparison.partitions.common = <<>>

\* the base sheet has no key column, the target sheet two keys
C11_Witness ==
    /\ comparison.stage = "partitioned"
    /\ comparison.key = JiaoYuId
    /\ ~listIncludes(comparison.base.headers, JiaoYuId)
    /\ Len(comparison.base.rows) = 2
    /\ comparison.forward.missingKeyRows.base = 2
    /\ Len(comparison.forward.onlyInTarget) = 2
    /\ comparison.forward.onlyInBase = <<>>
    /\ comparison.partitions.common = <<>>
    /\ comparison.partitions.onlyInB = comparison.target.rows

\* how often a key is listed
timesListed(list, k) == Cardinality({ i \in 1..Len(list) : list[i] = k })

\* the sanitized key value of the row at a position of a sheet
keyValueAt(sheet, key, i) == sanitizeValue(get(sheet.rows[i], key))

\* the key values of a sheet, the empty one left out
indexedKeys(sheet, key) ==
    { keyValueAt(sheet, key, i) : i \in 1..Len(sheet.rows) } \ { <<>> }

\* the first row of a sheet, in table order, that carries the key value k
firstRowOf(sheet, key, k) ==
    sheet.rows[CHOOSE i \in 1..Len(sheet.rows) :
                   /\ keyValueAt(sheet, key, i) = k
                   /\ \A j \in 1..Len(sheet.rows) : keyValueAt(sheet, key, j) = k => i <= j]

\* C16: every key of the base index is in exactly one of three cases: without
\* a target row and once in onlyInBase; with a target row that differs in some
\* compared column and once in mismatchedRows, its diffs being the differing
\* columns, each once, with the base and the target value; or with an equal
\* target row and listed nowhere.  onlyInTarget holds the target keys that
\* are not base keys, each once.
C16_ComparisonClassification ==
    comparison.stage = "compared" =>
        LET base == comparison.base
            target == comparison.target
            key == comparison.key
            result == comparison.forward
            columns == Range(base.headers) \cup Range(target.headers)
            baseValue(k, c) == sanitizeValue(get(firstRowOf(base, key, k), c))
            targetValue(k, c) == sanitizeValue(get(firstRowOf(target, key, k), c))
            differing(k) == { c \in columns : baseValue(k, c) # targetValue(k, c) }
            listed(k) == { i \in 1..Len(result.mismatchedRows) :
                             result.mismatchedRows[i].key = k }
        IN /\ \A k \in indexedKeys(base, key) :
                IF k \notin indexedKeys(target, key)
                THEN timesListed(result.onlyInBase, k) = 1 /\ listed(k) = {}
                ELSE /\ timesListed(result.onlyInBase, k) = 0
                     /\ IF differing(k) = {} THEN listed(k) = {}
                        ELSE /\ Cardinality(listed(k)) = 1
                             /\ \A i \in listed(k) :
                                  LET diffs == result.mismatchedRows[i].diffs
                                  IN /\ Len(diffs) = Cardinality(differing(k))
                                     /\ { diffs[d].column : d \in 1..Len(diffs) } = differing(k)
                                     /\ \A d \in 1..Len(diffs) :
                                          /\ diffs[d].baseValue = baseValue(k, diffs[d].column)
                                          /\ diffs[d].targetValue = targetValue(k, diffs[d].column)
           /\ Range(result.onlyInBase) \subseteq indexedKeys(base, key)
           /\ \A i \in 1..Len(result.mismatchedRows) :
                result.mismatchedRows[i].key \in indexedKeys(base, key)
           /\ Range(result.onlyInTarget) = indexedKeys(target, key) \ indexedKeys(base, key)
           /\ Len(result.onlyInTarget) = Cardinality(Range(result.onlyInTarget))

\* two rows of key 2 that differ in the remark and in the code
C16_Witness ==
    /\ comparison.stage = "compared"
    /\ comparison.key = JiaoYuId
    /\ comparison.base.rows = << WideRow(<<"2">>, <<"x">>, <<"7">>) >>
    /\ comparison.target.rows = << WideRow(<<"2">>, <<"y">>, <<"8">>) >>
    /\ comparison.forward.mismatchedRows =
           << [key |-> <<"2">>,
               diffs |-> << [column |-> BeiZhu, baseValue |-> <<"x">>, targetValue |-> <<"y">>],
                            [column |-> MiMa, baseValue |-> <<"7">>, targetValue |-> <<"8">>] >>] >>
    /\ comparison.forward.onlyInBase = <<>>
    /\ comparison.forward.onlyInTarget = <<>>

\* what buildKeyIndex returns for a sheet, stated from the rows
firstSeenIndex(sheet, key, index) ==
    LET repeated == { k \in indexedKeys(sheet, key) :
                        Cardinality({ i \in 1..Len(sheet.rows) :
                                        keyValueAt(sheet, key, i) = k }) > 1 }
    IN /\ index.missingKey =
            Cardinality({ i \in 1..Len(sheet.rows) : keyValueAt(sheet, key, i) = <<>> })
       /\ Range(keysOf(index.map)) = indexedKeys(sheet, key)
       /\ Len(index.map) = Cardinality(indexedKeys(sheet, key))
       /\ \A e \in 1..Len(index.map) :
            index.map[e].v = firstRowOf(sheet, key, index.map[e].k)
       /\ Range(index.duplicates) = repeated
       /\ Len(index.duplicates) = Cardinality(repeated)

C30_ResultConsistency ==
    comparison.stage = "compared" =>
        LET result == comparison.forward
        IN /\ \A i \in 1..Len(result.mismatchedRows) :
                /\ \A d \in 1..Len(result.mismatchedRows[i].diffs) :
                     result.mismatchedRows[i].diffs[d].column # comparison.key
                /\ hasKey(comparison.index.base.map, result.mismatchedRows[i].key)
                /\ hasKey(comparison.index.target.map, result.mismatchedRows[i].key)
           /\ Range(result.onlyInBase) \cap Range(result.onlyInTarget) = {}

\* keyed by the remark: a key that differs in the education id, which the
\* target sheet lacks, next to a key of the base sheet alone
C30_Witness ==
    /\ comparison.stage = "compared"
    /\ comparison.key = BeiZhu
    /\ comparison.forward.mismatchedRows # <<>>
    /\ comparison.forward.onlyInBase # <<>>
    /\ comparison.forward.onlyInTarget = <<>>
    /\ Len(comparison.base.rows) = 2
    /\ listIncludes(comparison.base.headers, JiaoYuId)
    /\ ~listIncludes(comparison.target.headers, JiaoYuId)

-----------------------------------------------------------------------------
(* App.tsx: one raw record mapped to a typed row (applyMapping, buildResultData) *)

fieldIds(fields) == { fields[i].id : i \in 1..Len(fields) }
fieldById(fields, id) == fields[CHOOSE i \in 1..Len(fields) : fields[i].id = id]

\* field.sourceKey ? sanitizeValue(raw[field.sourceKey]) : ''
sourceValue(raw, field) ==
    IF field.sourceKey = Undefined \/ field.sourceKey = <<>> THEN <<>>
    ELSE sanitizeValue(get(raw, field.sourceKey))

\* values gets an entry for every field, errors only for a field with an error
mapRow(raw, fields, rowId) ==
    LET adjusted(id) == pipelineValue(sourceValue(raw, fieldById(fields, id)),
                                      fieldById(fields, id))
        error(id) == validateValue(adjusted(id), fieldById(fields, id))
    IN [rowId |-> rowId,
        values |-> [id \in fieldIds(fields) |-> adjusted(id)],
        errors |-> [id \in { f \in fieldIds(fields) : error(f) # NoError } |-> error(id)]]

-----------------------------------------------------------------------------
(* App.tsx handleRunSubtract: the result tables and the handler *)

\* no layout draws more identifiers than one per column and one per template
idsDrawn(headers) == Len(headers) + Len(DEFAULT_FIELD_CONFIGS)

buildResultData(rows, headers, typePrefix, firstId) ==
    LET columns == buildColumns(rows, headers)
        fields == buildImportedFieldLayout(columns, rows, firstId)
    IN [type |-> typePrefix,
        fields |-> fields,
        rows |-> [i \in 1..Len(rows) |-> mapRow(rows[i], fields, <<typePrefix, i - 1>>)]]

subtractResultsOf(base, target, key) ==
    LET parts == subtractPartitions(base, target, key)
        idA == 1
        idB == idA + idsDrawn(base.headers)
        idC == idB + idsDrawn(target.headers)
    IN << buildResultData(parts.onlyInA, base.headers, "onlyInA", idA),
          buildResultData(parts.onlyInB, target.headers, "onlyInB", idB),
          buildResultData(parts.common, base.headers, "common", idC) >>

\* subtractKeyOptions: the headers of A that B has too
subtractKeyOptions(base, target) ==
    SelectSeq(base.headers, LAMBDA h : listIncludes(target.headers, h))

\* both sheets are loaded and the key is one of the shared headers, as the
\* key effect leaves it; partitions records the handler's three row lists
InitSubtract ==
    /\ \E a \in Sheets, b \in Sheets :
         \E k \in Range(subtractKeyOptions(a, b)) :
            subtract = [base |-> a, target |-> b, key |-> k, ran |-> FALSE,
                        partitions |-> [onlyInA |-> <<>>, onlyInB |-> <<>>, common |-> <<>>],
                        results |-> <<>>]
    /\ pipeline = None
    /\ roundTrip = None
    /\ layout = None
    /\ comparison = None
    /\ statistics = None
    /\ EmptyWorkspace
    /\ call = None

handleRunSubtract ==
    /\ subtract # None
    /\ subtract.key # <<>>
    /\ ~subtract.ran
    /\ subtract' = [subtract EXCEPT
           !.ran = TRUE,
           !.partitions = subtractPartitions(subtract.base, subtract.target, subtract.key),
           !.results = subtractResultsOf(subtract.base, subtract.target, subtract.key)]
    /\ UNCHANGED <<workspace, pipeline, roundTrip, layout, comparison, statistics, call>>

NextSubtract == handleRunSubtract

SpecSubtract == InitSubtract /\ [][NextSubtract]_vars

\* the distinct non-empty sanitized values of the key column
distinctKeys(sheet, key) ==
    { sanitizeValue(get(sheet.rows[i], key)) : i \in 1..Len(sheet.rows) } \ { <<>> }

\* C2: the A-only and common rows together are as many as the distinct keys of
\* A, the B-only and common rows together as many as the distinct keys of B.
C2_SubtractionCompleteness ==
    subtract # None /\ subtract.ran =>
        /\ Len(subtract.results[1].rows) + Len(subtract.results[3].rows)
               = Cardinality(distinctKeys(subtract.base, subtract.key))
        /\ Len(subtract.results[2].rows) + Len(subtract.results[3].rows)
               = Cardinality(distinctKeys(subtract.target, subtract.key))

\* both rows of A have the one key, which B has too, next to a key of its own
C2_Witness ==
    /\ subtract # None /\ subtract.ran
    /\ subtract.key = JiaoYuId
    /\ Cardinality(distinctKeys(subtract.base, subtract.key)) = 1
    /\ Len(subtract.base.rows) = 2
    /\ Len(subtract.results[1].rows) = 0
    /\ Len(subtract.results[2].rows) = 1
    /\ Len(subtract.results[3].rows) = 1

\* the first row of the sheet whose key value is that of the given row
firstRowWithKeyOf(sheet, key, row) ==
    sheet.rows[CHOOSE i \in 1..Len(sheet.rows) :
        /\ sanitizeValue(get(sheet.rows[i], key)) = sanitizeValue(get(row, key))
        /\ \A j \in 1..(i - 1) :
             sanitizeValue(get(sheet.rows[j], key)) # sanitizeValue(get(row, key))]

\* C7: a key that several rows of a table share is represented, in the
\* partitions, by the first of those rows in table order.
C7_FirstSeenWins ==
    subtract # None /\ subtract.ran =>
        /\ \A i \in 1..Len(subtract.partitions.onlyInA) :
             subtract.partitions.onlyInA[i] =
                 firstRowWithKeyOf(subtract.base, subtract.key, subtract.partitions.onlyInA[i])
        /\ \A i \in 1..Len(subtract.partitions.common) :
             subtract.partitions.common[i] =
                 firstRowWithKeyOf(subtract.base, subtract.key, subtract.partitions.common[i])
        /\ \A i \in 1..Len(subtract.partitions.onlyInB) :
             subtract.partitions.onlyInB[i] =
                 firstRowWithKeyOf(subtract.target, subtract.key, subtract.partitions.onlyInB[i])

-----------------------------------------------------------------------------
(* statistics.ts: groupByField, aggregate, calculateStatistics, sortStatistics *)

MingZi == <<"ming", "zi">>
ChengYuan == <<"cheng", "yuan">>
RenYuan == <<"ren", "yuan">>
XueYuan == <<"xue", "yuan">>
YuanGong == <<"yuan", "gong">>

nameKeywords ==
    << XingMing, <<"n","a","m","e">>, MingZi, ChengYuan, RenYuan, XueYuan, XueSheng, YuanGong >>

isNameField(fieldName) ==
    \E k \in 1..Len(nameKeywords) :
        \/ includes(fieldName, nameKeywords[k])
        \/ includes(toLowerCase(fieldName), toLowerCase(nameKeywords[k]))

\* value.replace(/\r\n/g, '\n')
RECURSIVE replaceCrLf(_)
replaceCrLf(s) ==
    IF s = <<>> THEN <<>>
    ELSE IF Len(s) >= 2 /\ s[1] = "\r" /\ s[2] = "\n"
    THEN <<"\n">> \o replaceCrLf(SubSeq(s, 3, Len(s)))
    ELSE <<Head(s)>> \o replaceCrLf(Tail(s))

IsLineFeed(c) == c = "\n"

splitByNewline(value) ==
    IF value = <<>> THEN <<>>
    ELSE filterNonEmpty(mapTrim(splitOn(replaceCrLf(value), IsLineFeed, <<>>)))

\* the group values one row is registered under
groupValuesOf(row, field) ==
    LET groupValueRaw == sanitizeValue(get(row, field))
    IN IF groupValueRaw = <<>> THEN <<>>
       ELSE IF isNameField(field) /\
               (listIncludes(groupValueRaw, "\n") \/ listIncludes(groupValueRaw, "\r"))
       THEN splitByNewline(groupValueRaw)
       ELSE <<groupValueRaw>>

\* groups.set(groupValue, [row]): a group keeps only the row registered last
register_overwrite(groups, groupValue, row) ==
    IF groupValue = <<>> THEN groups
    ELSE IF hasKey(groups, groupValue)
    THEN [i \in 1..Len(groups) |->
             IF groups[i].k = groupValue
             THEN [k |-> groupValue, v |-> <<row>>] ELSE groups[i]]
    ELSE Append(groups, [k |-> groupValue, v |-> <<row>>])

\* groups.set(groupValue, [...(groups.get(groupValue) || []), row])
register(groups, groupValue, row) ==
    IF groupValue = <<>> THEN groups
    ELSE IF hasKey(groups, groupValue)
    THEN [i \in 1..Len(groups) |->
             IF groups[i].k = groupValue
             THEN [k |-> groupValue, v |-> Append(groups[i].v, row)] ELSE groups[i]]
    ELSE Append(groups, [k |-> groupValue, v |-> <<row>>])

RECURSIVE registerAll(_, _, _)
registerAll(groups, groupValues, row) ==
    IF groupValues = <<>> THEN groups
    ELSE registerAll(register(groups, Head(groupValues), row), Tail(groupValues), row)

RECURSIVE groupByField_firstLineOnly(_, _)
groupByField_firstLineOnly(rows, field) ==
    IF rows = <<>> THEN <<>>
    ELSE LET values == groupValuesOf(rows[Len(rows)], field)
         IN registerAll(groupByField_firstLineOnly(SubSeq(rows, 1, Len(rows) - 1), field),
                        SubSeq(values, 1, IF values = <<>> THEN 0 ELSE 1),
                        rows[Len(rows)])

\* the Map of group value -> member rows, in order of first appearance
RECURSIVE groupByField(_, _)
groupByField(rows, field) ==
    IF rows = <<>> THEN <<>>
    ELSE registerAll(groupByField(SubSeq(rows, 1, Len(rows) - 1), field),
                     groupValuesOf(rows[Len(rows)], field),
                     rows[Len(rows)])

\* Numbers are fractions [num, den] in lowest terms with den > 0.
RECURSIVE gcd(_, _)
gcd(a, b) == IF b = 0 THEN a ELSE gcd(b, a % b)
abs(n) == IF n < 0 THEN -n ELSE n
fraction(num, den) ==
    LET g == gcd(abs(num), den) IN [num |-> num \div g, den |-> den \div g]
whole(n) == [num |-> n, den |-> 1]
plus(a, b) == fraction(a.num * b.den + b.num * a.den, a.den * b.den)
minus(a, b) == fraction(a.num * b.den - b.num * a.den, a.den * b.den)
divideBy(a, n) == fraction(a.num, a.den * n)
below(a, b) == a.num * b.den < b.num * a.den

RECURSIVE power10(_)
power10(n) == IF n = 0 THEN 1 ELSE 10 * power10(n - 1)

\* Number(s) of a literal isNumeric accepts
numberValue(s) ==
    LET t == trim(s)
        negative == t # <<>> /\ Head(t) = "-"
        u == IF t # <<>> /\ Head(t) \in {"+", "-"} THEN Tail(t) ELSE t
        digits == SelectSeq(u, LAMBDA x : x \in Digits)
        dot == IF listIncludes(u, ".") THEN CHOOSE i \in 1..Len(u) : u[i] = "." ELSE Len(u) + 1
        magnitude == fraction(numberOf(digits), power10(Len(u) - dot + (IF dot > Len(u) THEN 1 ELSE 0)))
    IN IF negative THEN fraction(-magnitude.num, magnitude.den) ELSE magnitude

RECURSIVE sumOf(_)
sumOf(values) == IF values = <<>> THEN whole(0) ELSE plus(Head(values), sumOf(Tail(values)))

aggregate(values, type) ==
    IF values = <<>> THEN whole(0)
    ELSE CASE type = "sum" -> sumOf(values)
           [] type = "count" -> whole(Len(values))
           [] type = "average" -> divideBy(sumOf(values), Len(values))
           [] type = "max" ->
                  values[CHOOSE i \in 1..Len(values) :
                             \A j \in 1..Len(values) : ~below(values[i], values[j])]
           [] type = "min" ->
                  values[CHOOSE i \in 1..Len(values) :
                             \A j \in 1..Len(values) : ~below(values[j], values[i])]
           [] OTHER -> whole(0)

compareStatistics(a, b, sortBy, sortOrder) ==
    LET compareValue ==
            IF sortBy = "group" THEN localeCompare(a.groupValue, b.groupValue)
            ELSE sign(minus(a.aggregateValue, b.aggregateValue).num)
    IN IF sortOrder = "asc" THEN compareValue ELSE -compareValue

\* a sort that takes every order but none for ascending
sortStatistics_alwaysAscending(results, sortBy, sortOrder) ==
    IF sortOrder = "none" THEN results
    ELSE sortWith(results, LAMBDA a, b : compareStatistics(a, b, sortBy, "asc"))

sortStatistics(results, sortBy, sortOrder) ==
    IF sortOrder = "none" THEN results
    ELSE sortWith(results, LAMBDA a, b : compareStatistics(a, b, sortBy, sortOrder))

\* createStatisticsId() is a fresh identifier: the position of the group
calculateStatistics(data, config) ==
    LET groups == groupByField(data.rows, config.groupByField)
        numbersOf(groupRows) ==
            LET cells == [i \in 1..Len(groupRows) |->
                             removeChar(sanitizeValue(get(groupRows[i], config.aggregateField)), ",")]
                numeric == SelectSeq(cells, isNumeric)
            IN [i \in 1..Len(numeric) |-> numberValue(numeric[i])]
        results == [g \in 1..Len(groups) |->
                       [id |-> g,
                        groupValue |-> groups[g].k,
                        aggregateValue |->
                            IF config.aggregateType = "count" THEN whole(Len(groups[g].v))
                            ELSE aggregate(numbersOf(groups[g].v), config.aggregateType)]]
    IN sortStatistics(results, config.sortBy, config.sortOrder)

-----------------------------------------------------------------------------
(* Harness of the aggregation engine: a parsed sheet and a statistics config *)

MaxStatRows == 2

ZhangSan == <<"zhang", "san">>
LiSi == <<"li", "si">>
BuMen == <<"bu", "men">>                        \* department
ShuLiang == <<"shu", "liang">>                  \* quantity

StatRow(header, group, value) ==
    << [k |-> header, v |-> group], [k |-> ShuLiang, v |-> value] >>

\* group cells: none, one name, two names on two lines, one name on two lines
\* split by CR LF, two names around a lone CR; value cells: numbers, text, none
StatRows(header) ==
    { StatRow(header, <<>>, <<"3">>),
      StatRow(header, ZhangSan, <<"3">>),
      StatRow(header, LiSi, <<"x">>),
      StatRow(header, ZhangSan \o <<"\n">> \o LiSi, <<"1", ",", "0", "0", "0">>),
      StatRow(header, ZhangSan \o <<"\r", "\n", " ">> \o ZhangSan, <<>>),
      StatRow(header, LiSi \o <<"\r">> \o ZhangSan, <<"-", "1", ".", "5">>) }

StatConfigs(header) ==
    { [groupByField |-> header, aggregateField |-> ShuLiang, aggregateType |-> t,
       sortBy |-> b, sortOrder |-> o] :
      t \in {"sum", "count", "average", "max", "min"},
      b \in {"group", "value"}, o \in {"asc", "desc", "none"} }

InitStatistics ==
    /\ \E header \in {XingMing, BuMen} :
         \E n \in 1..MaxStatRows :
            \E rows \in [1..n -> StatRows(header)], config \in StatConfigs(header) :
               statistics = [stage |-> "input",
                             data |-> [headers |-> <<header, ShuLiang>>, rows |-> rows],
                             config |-> config, results |-> <<>>]
    /\ pipeline = None
    /\ roundTrip = None
    /\ layout = None
    /\ comparison = None
    /\ subtract = None
    /\ EmptyWorkspace
    /\ call = None

RunStatistics ==
    /\ statistics.stage = "input"
    /\ statistics' = [statistics EXCEPT
           !.stage = "done",
           !.results = calculateStatistics(statistics.data, statistics.config)]
    /\ UNCHANGED <<workspace, pipeline, roundTrip, layout, comparison, subtract, call>>

NextStatistics == RunStatistics

SpecStatistics == InitStatistics /\ [][NextStatistics]_vars

RECURSIVE sumOfCounts(_)
sumOfCounts(results) ==
    IF results = <<>> THEN 0
    ELSE Head(results).aggregateValue.num + sumOfCounts(Tail(results))

groupCell(i) == sanitizeValue(get(statistics.data.rows[i], statistics.config.groupByField))

NoSplitting ==
    \/ ~isNameField(statistics.config.groupByField)
    \/ \A i \in 1..Len(statistics.data.rows) : ~listIncludes(groupCell(i), "\n")

\* C8: without name-splitting, the counts of the groups add up to the number of
\* rows whose sanitized group value is not empty.
C8_CountConservation ==
    (statistics.stage = "done" /\ statistics.config.aggregateType = "count" /\ NoSplitting)
    => sumOfCounts(statistics.results)
           = Cardinality({ i \in 1..Len(statistics.data.rows) : groupCell(i) # <<>> })

\* two counted rows in one group, under a name-like field and under another
C8_Witness ==
    /\ statistics.stage = "done"
    /\ statistics.config.aggregateType = "count"
    /\ NoSplitting
    /\ isNameField(statistics.config.groupByField)
    /\ Len(statistics.data.rows) = 2
    /\ Len(statistics.results) = 1
    /\ statistics.results[1].aggregateValue = whole(2)

\* how many lines of the cell are the given name: the cell is cut at LF (CR LF
\* counting as LF), each piece trimmed, when it holds a line break at all
RECURSIVE occurrences(_, _)
occurrences(list, x) ==
    IF list = <<>> THEN 0
    ELSE (IF Head(list) = x THEN 1 ELSE 0) + occurrences(Tail(list), x)

linesOf(cell) ==
    IF listIncludes(cell, "\n") THEN splitByNewline(cell)
    ELSE IF cell = <<>> THEN <<>> ELSE <<cell>>

RECURSIVE registrations(_, _)
registrations(i, name) ==
    IF i = 0 THEN 0
    ELSE occurrences(linesOf(groupCell(i)), name) + registrations(i - 1, name)

\* C9: under a name-like group-by field a row is registered once under every
\* line of its value, so each group's count is the number of lines, over all
\* rows, that are its name; one row holding two names on two lines yields two
\* groups of count 1.
C9_NameSplitting ==
    (statistics.stage = "done" /\ statistics.config.aggregateType = "count"
        /\ isNameField(statistics.config.groupByField))
    => /\ \A g \in 1..Len(statistics.results) :
            statistics.results[g].aggregateValue =
                whole(registrations(Len(statistics.data.rows), statistics.results[g].groupValue))
       /\ \A i \in 1..Len(statistics.data.rows) :
            \A l \in 1..Len(linesOf(groupCell(i))) :
                \E g \in 1..Len(statistics.results) :
                    statistics.results[g].groupValue = linesOf(groupCell(i))[l]
       /\ (statistics.data.rows = << StatRow(XingMing, ZhangSan \o <<"\n">> \o LiSi,
                                             <<"1", ",", "0", "0", "0">>) >>
           /\ statistics.config.sortOrder = "none")
          => statistics.results =
                 << [id |-> 1, groupValue |-> ZhangSan, aggregateValue |-> whole(1)],
                    [id |-> 2, groupValue |-> LiSi, aggregateValue |-> whole(1)] >>

\* a row with two names next to a row with one of them
C9_Witness ==
    /\ statistics.stage = "done"
    /\ statistics.config.aggregateType = "count"
    /\ statistics.config.sortOrder = "none"
    /\ isNameField(statistics.config.groupByField)
    /\ Len(statistics.data.rows) = 2
    /\ groupCell(1) = ZhangSan \o <<"\n">> \o LiSi
    /\ groupCell(2) = LiSi
    /\ statistics.results =
           << [id |-> 1, groupValue |-> ZhangSan, aggregateValue |-> whole(1)],
              [id |-> 2, groupValue |-> LiSi, aggregateValue |-> whole(2)] >>

-----------------------------------------------------------------------------
(* App.tsx: the workspace handlers *)

DecimalDigits == <<"0","1","2","3","4","5","6","7","8","9">>

\* String(n) for a natural number
RECURSIVE decimal(_)
decimal(n) ==
    IF n < 10 THEN <<DecimalDigits[n + 1]>>
    ELSE decimal(n \div 10) \o <<DecimalDigits[(n % 10) + 1]>>

XinZengZiDuan == <<"xin", "zeng", "zi", "duan">>        \* "new field"

\* createMappingId() is a fresh identifier: no preset rule carries it
createMappingId(n) == n + Len(DEFAULT_FIELD_CONFIGS[4].valueMappingPresets)

\* Array.prototype.join
RECURSIVE join(_, _)
join(list, separator) ==
    IF list = <<>> THEN <<>>
    ELSE IF Len(list) = 1 THEN list[1]
    ELSE list[1] \o separator \o join(Tail(list), separator)

ConflictSeparator == <<" ", "|", " ">>

\* the values of record[key] with fields[i].id # id removed from a row's map
without(map, id) == [k \in (DOMAIN map) \ {id} |-> map[k]]

\* { ...map, [id]: value }
with(map, id, value) == [k \in (DOMAIN map) \cup {id} |-> IF k = id THEN value ELSE map[k]]

\* applyMapping, lines 433-490: the raw rows after the merge on the primary key
mergedRawRows(rawRows, columns) ==
    LET normalizedPrimaryName == toLowerCase(normalizeKey(PRIMARY_FIELD_NAME))
        primary == { i \in 1..Len(columns) :
                       toLowerCase(normalizeKey(columns[i].key)) = normalizedPrimaryName }
        primaryColumnKey == columns[CHOOSE i \in primary : \A j \in primary : i <= j].key
        keyValue(raw) == sanitizeValue(get(raw, primaryColumnKey))
        unkeyed == SelectSeq(rawRows, LAMBDA raw : keyValue(raw) = <<>>)
        keyed == SelectSeq(rawRows, LAMBDA raw : keyValue(raw) # <<>>)
        keyValues == uniqueInOrder([i \in 1..Len(keyed) |-> keyValue(keyed[i])])
        group(k) == SelectSeq(keyed, LAMBDA raw : keyValue(raw) = k)
        uniqueValues(g, key) ==
            uniqueInOrder(filterNonEmpty([i \in 1..Len(g) |-> sanitizeValue(get(g[i], key))]))
        merged(g) ==
            IF Len(g) = 1 THEN g[1]
            ELSE [c \in 1..Len(columns) |->
                     [k |-> columns[c].key,
                      v |-> join(uniqueValues(g, columns[c].key), ConflictSeparator)]]
    IN IF primary # {} /\ rawRows # <<>>
       THEN unkeyed \o [i \in 1..Len(keyValues) |-> merged(group(keyValues[i]))]
       ELSE rawRows

RowId(index) == <<"row", index>>

\* applyMapping, lines 492-514
mappedRows(rawRows, columns, fields) ==
    LET merged == mergedRawRows(rawRows, columns)
    IN [i \in 1..Len(merged) |-> mapRow(merged[i], fields, RowId(i - 1))]

\* value.replace(/[^\d.-]/g, '')
IsNumberChar(c) == c \in Digits \cup {".", "-"}
stripNonNumeric(value) == SelectSeq(value, IsNumberChar)

\* updateCell, lines 554-558: the cell a typed string becomes, without the stage
\* applyFixedLength
editedCell_unpadded(value, field) ==
    LET normalized == IF field.type = "number" THEN stripNonNumeric(value) ELSE value
        mapped == applyValueMappings(normalized, field)
    IN [value |-> mapped, error |-> validateValue(mapped, field)]

\* updateCell, lines 554-558: the cell a typed string becomes
editedCell(value, field) ==
    LET normalized == IF field.type = "number" THEN stripNonNumeric(value) ELSE value
        mapped == applyValueMappings(normalized, field)
        adjusted == applyFixedLength(mapped, field)
    IN [value |-> adjusted, error |-> validateValue(adjusted, field)]

\* the files the user picks, as parseSheetRows and normalizeRowKeys return them
CellRow(headers, cells) == [i \in 1..Len(headers) |-> [k |-> headers[i], v |-> cells[i]]]

RosterHeaders == <<JiaoYuId, BeiZhu>>
CodesHeaders == <<MiMa>>

ImportFiles ==
    { [headers |-> RosterHeaders,
       rows |-> <<CellRow(RosterHeaders, << <<"1">>, <<"x">> >>),
                  CellRow(RosterHeaders, << <<"1">>, <<"y">> >>)>>],
      [headers |-> CodesHeaders,
       rows |-> <<CellRow(CodesHeaders, << <<"7">> >>)>>] }

UpdateFieldInputs ==
    { [key |-> "type", value |-> "number"],
      [key |-> "fixedLength", value |-> <<3>>] }

UpdateRuleInputs ==
    { [key |-> "from", value |-> <<"a">>],
      [key |-> "to", value |-> <<"z">>] }

CellInputs == { <<"a">>, <<" ", "1", "x">> }

\* the length of the sessions explored
MaxSteps == 5

step == steps < MaxSteps /\ steps' = steps + 1 /\ UNCHANGED <<harnesses, toast>>

otherSteps == step /\ lastEdit' = NoEdit

setImportMode(mode) ==
    /\ app.importMode # mode
    /\ app' = [app EXCEPT !.importMode = mode]
    /\ UNCHANGED <<parsing, nextId>>
    /\ otherSteps

\* handleFileChange up to its first await: the input is disabled while isParsing
handleFileChange(file) ==
    /\ ~parsing.isParsing
    /\ parsing' = [isParsing |-> TRUE, file |-> file, importMode |-> app.importMode,
                   rawRows |-> app.rawRows, columns |-> app.columns,
                   hasFields |-> app.fields # <<>>]
    /\ UNCHANGED <<app, nextId>>
    /\ otherSteps

\* handleFileChange after the file is read, lines 273-312: it works on the
\* importMode, rawRows, columns and fields of the render that started it
handleFileChangeResumed ==
    /\ parsing.isParsing
    /\ LET bufferedRows == parsing.file.rows
           headerOrder == parsing.file.headers
           mergedRows == IF parsing.importMode = "append" /\ parsing.rawRows # <<>>
                         THEN parsing.rawRows \o bufferedRows ELSE bufferedRows
           nextColumns == buildColumns(mergedRows,
                              IF headerOrder # <<>> THEN headerOrder
                              ELSE [i \in 1..Len(parsing.columns) |-> parsing.columns[i].key])
           regenerate == parsing.importMode = "replace" \/ ~parsing.hasFields
           drawn == IF regenerate
                    THEN Len(nextColumns) + Len(buildDefaultFields(nextColumns, mergedRows, 0))
                    ELSE 0
       IN /\ app' = [app EXCEPT
                        !.rawRows = mergedRows,
                        !.columns = nextColumns,
                        !.fields = IF regenerate
                                   THEN buildImportedFieldLayout(nextColumns, mergedRows, nextId)
                                   ELSE @,
                        !.rows = <<>>]
          /\ nextId' = nextId + drawn
    /\ parsing' = NotParsing
    /\ otherSteps

refreshFieldsFromColumns ==
    /\ app.columns # <<>> /\ app.rawRows # <<>>
    /\ LET drawn == Len(app.columns) + Len(buildDefaultFields(app.columns, app.rawRows, 0))
       IN /\ app' = [app EXCEPT
                        !.fields = buildImportedFieldLayout(app.columns, app.rawRows, nextId),
                        !.rows = <<>>]
          /\ nextId' = nextId + drawn
    /\ UNCHANGED parsing
    /\ otherSteps

setField(list, id, key, value) ==
    [i \in 1..Len(list) |->
        IF list[i].id # id THEN list[i]
        ELSE IF key = "type" THEN [list[i] EXCEPT !.type = value]
        ELSE IF key = "required" THEN [list[i] EXCEPT !.required = value]
        ELSE IF key = "fixedLength" THEN [list[i] EXCEPT !.fixedLength = value]
        ELSE IF key = "options" THEN [list[i] EXCEPT !.options = value]
        ELSE IF key = "sourceKey" THEN [list[i] EXCEPT !.sourceKey = value]
        ELSE [list[i] EXCEPT !.name = value]]

\* an updateField that keeps the generated rows
updateField_keepRows(id, key, value) ==
    /\ app' = [app EXCEPT !.fields = setField(@, id, key, value)]
    /\ UNCHANGED <<parsing, nextId>>
    /\ otherSteps

updateField(id, key, value) ==
    /\ app' = [app EXCEPT !.fields = setField(@, id, key, value), !.rows = <<>>]
    /\ UNCHANGED <<parsing, nextId>>
    /\ otherSteps

addField ==
    /\ app' = [app EXCEPT !.fields = Append(@,
                   [id |-> nextId, name |-> XinZengZiDuan \o decimal(Len(@) + 1),
                    type |-> "text", sourceKey |-> Undefined, required |-> FALSE,
                    options |-> <<>>, valueMappings |-> <<>>, fixedLength |-> <<>>])]
    /\ nextId' = nextId + 1
    /\ UNCHANGED parsing
    /\ otherSteps

removeField(id) ==
    /\ app' = [app EXCEPT
                  !.fields = SelectSeq(@, LAMBDA field : field.id # id),
                  !.rows = [i \in 1..Len(@) |->
                               [@[i] EXCEPT !.values = without(@, id),
                                            !.errors = without(@, id)]]]
    /\ UNCHANGED <<parsing, nextId>>
    /\ otherSteps

addValueMappingRule(fieldId) ==
    /\ app' = [app EXCEPT
                  !.fields = [i \in 1..Len(@) |->
                                 IF @[i].id = fieldId
                                 THEN [@[i] EXCEPT !.valueMappings =
                                          Append(@, Rule(createMappingId(nextId), <<>>, <<>>))]
                                 ELSE @[i]],
                  !.rows = <<>>]
    /\ nextId' = nextId + 1
    /\ UNCHANGED parsing
    /\ otherSteps

updateValueMappingRule(fieldId, mappingId, key, value) ==
    /\ app' = [app EXCEPT
                  !.fields = [i \in 1..Len(@) |->
                                 IF @[i].id # fieldId THEN @[i]
                                 ELSE [@[i] EXCEPT !.valueMappings =
                                          [m \in 1..Len(@) |->
                                              IF @[m].id # mappingId THEN @[m]
                                              ELSE IF key = "from"
                                                   THEN [@[m] EXCEPT !.from = value]
                                                   ELSE [@[m] EXCEPT !.to = value]]]],
                  !.rows = <<>>]
    /\ UNCHANGED <<parsing, nextId>>
    /\ otherSteps

removeValueMappingRule(fieldId, mappingId) ==
    /\ app' = [app EXCEPT
                  !.fields = [i \in 1..Len(@) |->
                                 IF @[i].id = fieldId
                                 THEN [@[i] EXCEPT !.valueMappings =
                                          SelectSeq(@, LAMBDA mapping : mapping.id # mappingId)]
                                 ELSE @[i]],
                  !.rows = <<>>]
    /\ UNCHANGED <<parsing, nextId>>
    /\ otherSteps

\* without raw rows or fields applyMapping only sets the status line
applyMapping ==
    /\ app.rawRows # <<>> /\ app.fields # <<>>
    /\ app' = [app EXCEPT !.rows = mappedRows(app.rawRows, app.columns, app.fields)]
    /\ UNCHANGED <<parsing, nextId>>
    /\ otherSteps

\* the table renders one input per row and field: rowId and fieldId exist
updateCell(rowId, fieldId, value) ==
    /\ app' = [app EXCEPT
                  !.rows = [i \in 1..Len(@) |->
                               IF @[i].rowId # rowId THEN @[i]
                               ELSE LET cell == editedCell(value, fieldById(app.fields, fieldId))
                                    IN [@[i] EXCEPT
                                           !.values = with(@, fieldId, cell.value),
                                           !.errors = with(@, fieldId, cell.error)]]]
    /\ lastEdit' = [rowId |-> rowId, fieldId |-> fieldId, value |-> value]
    /\ UNCHANGED <<parsing, nextId>>
    /\ step

fillOptionsFromSource(field) ==
    /\ field.sourceKey # Undefined /\ field.sourceKey # <<>>
    /\ updateField(field.id, "options", extractOptions(app.rawRows, field.sourceKey, OptionLimit))

resetWorkspace ==
    /\ app' = [app EXCEPT !.columns = <<>>, !.rawRows = <<>>, !.fields = <<>>, !.rows = <<>>]
    /\ UNCHANGED <<parsing, nextId>>
    /\ otherSteps

fieldsOf(list) == { list[i] : i \in 1..Len(list) }

Init ==
    /\ EmptyWorkspace
    /\ call = None
    /\ pipeline = None
    /\ roundTrip = None
    /\ layout = None
    /\ comparison = None
    /\ subtract = None
    /\ statistics = None

Next ==
    \/ \E mode \in {"replace", "append"} : setImportMode(mode)
    \/ \E file \in ImportFiles : handleFileChange(file)
    \/ handleFileChangeResumed
    \/ refreshFieldsFromColumns
    \/ \E field \in fieldsOf(app.fields), input \in UpdateFieldInputs :
           updateField(field.id, input.key, input.value)
    \/ addField
    \/ \E field \in fieldsOf(app.fields) : removeField(field.id)
    \/ \E field \in fieldsOf(app.fields) : addValueMappingRule(field.id)
    \/ \E field \in fieldsOf(app.fields) :
           \E mapping \in fieldsOf(field.valueMappings), input \in UpdateRuleInputs :
           updateValueMappingRule(field.id, mapping.id, input.key, input.value)
    \/ \E field \in fieldsOf(app.fields) : \E mapping \in fieldsOf(field.valueMappings) :
           removeValueMappingRule(field.id, mapping.id)
    \/ applyMapping
    \/ \E row \in fieldsOf(app.rows), field \in fieldsOf(app.fields), value \in CellInputs :
           updateCell(row.rowId, field.id, value)
    \/ \E field \in fieldsOf(app.fields) : fillOptionsFromSource(field)
    \/ resetWorkspace

Spec == Init /\ [][Next]_vars

\* what of a field the generated rows depend on
configurationOf(field) ==
    <<field.type, field.sourceKey, field.required, field.options, field.fixedLength,
      field.valueMappings>>

\* C27: no step that changes the type, sourceKey, required flag, options,
\* fixedLength or value mappings of an existing field leaves typed rows
\* behind: after every step with rows, each field that was there before the
\* step has the configuration it had, so rows are only ever shown under the
\* configuration that produced them.
C27_RowsUnderTheirConfiguration ==
    [][app'.rows # <<>> =>
          \A old \in fieldsOf(app.fields), new \in fieldsOf(app'.fields) :
              old.id = new.id => configurationOf(old) = configurationOf(new)]_vars

\* rows generated under a value mapping rule that was added and edited
C27_Witness ==
    /\ app.rows # <<>>
    /\ \E field \in fieldsOf(app.fields) :
          \E mapping \in fieldsOf(field.valueMappings) : mapping.from = <<"a">>

errorOf(row, fieldId) == IF fieldId \in DOMAIN row.errors THEN row.errors[fieldId] ELSE NoError

\* C1: every typed row has an entry in values and in errors for exactly the
\* current field ids.
C1_RowKeysAreFieldIds ==
    \A i \in 1..Len(app.rows) :
        /\ DOMAIN app.rows[i].values = fieldIds(app.fields)
        /\ DOMAIN app.rows[i].errors = fieldIds(app.fields)

-----------------------------------------------------------------------------
(* Cell edits under every field configuration: the workspace after one column
   was imported, its field configured and the rows generated *)

CellEditInputs == PipelineInputs \cup { <<"1", "x">>, <<"-", "1", ".", "5">> }

CellEditRaw == <<[k |-> <<"f">>, v |-> <<"a">>]>>

InitCellEdit ==
    /\ \E field \in PipelineFields :
           app = [columns |-> buildColumns(<<CellEditRaw>>, << <<"f">> >>),
                  rawRows |-> <<CellEditRaw>>,
                  fields |-> <<field>>,
                  rows |-> mappedRows(<<CellEditRaw>>,
                                      buildColumns(<<CellEditRaw>>, << <<"f">> >>), <<field>>),
                  importMode |-> "replace"]
    /\ parsing = NotParsing
    /\ steps = 0
    /\ nextId = 2
    /\ lastEdit = NoEdit
    /\ toast = NoToast
    /\ pipeline = None
    /\ roundTrip = None
    /\ layout = None
    /\ comparison = None
    /\ subtract = None
    /\ statistics = None
    /\ call = None

NextCellEdit ==
    \E row \in fieldsOf(app.rows), field \in fieldsOf(app.fields), value \in CellEditInputs :
        updateCell(row.rowId, field.id, value)

SpecCellEdit == InitCellEdit /\ [][NextCellEdit]_vars

editedRow == app.rows[CHOOSE i \in 1..Len(app.rows) : app.rows[i].rowId = lastEdit.rowId]
editedField == fieldById(app.fields, lastEdit.fieldId)

AlreadyNormalized(value, type) ==
    /\ value = trim(value)
    /\ type = "link" => (value = <<>> \/ hasUrlPrefix(value))
    /\ type = "number" => \A i \in 1..Len(value) : IsNumberChar(value[i])

-----------------------------------------------------------------------------
(* Calls of validateValue: every field type, required or not, with and without
   options and rules *)

ValidateInputs ==
    { <<>>, <<" ">>, <<"a">>, <<",">>, <<"a", ",", "b">>, <<"1">>,
      <<"h","t","t","p",":","/","/","a">> }

ValidateFields ==
    { [id |-> 1, name |-> <<"f">>, type |-> t, sourceKey |-> <<"f">>, required |-> r,
       options |-> o, valueMappings |-> m, fixedLength |-> <<>>] :
      t \in FieldTypes, r \in BOOLEAN, o \in { <<>>, << <<"a">> >> },
      m \in { <<>>, <<Rule(1, <<"a">>, <<>>)>> } }

InitValidate ==
    /\ call \in { [fn |-> "validateValue", stage |-> "input", value |-> v, field |-> f,
                   result |-> NoError] : v \in ValidateInputs, f \in ValidateFields }
    /\ EmptyWorkspace
    /\ pipeline = None
    /\ roundTrip = None
    /\ layout = None
    /\ comparison = None
    /\ subtract = None
    /\ statistics = None

RunValidate ==
    /\ call.stage = "input"
    /\ call' = [call EXCEPT !.stage = "done", !.result = validateValue(call.value, call.field)]
    /\ UNCHANGED <<workspace, pipeline, roundTrip, layout, comparison, subtract, statistics>>

NextValidate == RunValidate

SpecValidate == InitValidate /\ [][NextValidate]_vars

\* C12: validateValue on the empty value returns an error exactly when the
\* field is required, whatever the field's type, options and rules.
C12_EmptyErrorIffRequired ==
    (call.stage = "done" /\ call.value = <<>>) =>
        (call.result # NoError <=> call.field.required)

\* the empty value under a multiSelect field with options that is not required
C12_Witness ==
    /\ call.stage = "done"
    /\ call.value = <<>>
    /\ call.field.type = "multiSelect"
    /\ call.field.options # <<>>
    /\ ~call.field.required
    /\ call.result = NoError

-----------------------------------------------------------------------------
(* The engines over a heap of arrays and records.  An address is a position in
   the heap; an array of rows holds the addresses of its row records.  Every
   allocation and every write in place of an engine is a step on the heap;
   what an engine reads is taken from the heap it was called with. *)

\* [], {}, Array.from(...), .map(...), .filter(...): a new object
alloc(heap, content) == [heap |-> Append(heap, content), at |-> Len(heap) + 1]

\* array.push(x)
pushAt(heap, array, x) == [heap EXCEPT ![array] = Append(@, x)]

\* array.sort(compare): in place
sortAt(heap, array, compare(_, _)) == [heap EXCEPT ![array] = sortWith(@, compare)]

\* the array itself where the code copies it
spread_alias(heap, array) == [heap |-> heap, at |-> array]

\* [...array]
spread(heap, array) == alloc(heap, heap[array])

\* the rows an array of row addresses holds
rowsAt(heap, array) == [i \in 1..Len(heap[array]) |-> heap[heap[array][i]]]

\* the ParsedSheetData behind the addresses of its headers and rows
sheetAt(heap, data) == [headers |-> heap[data.headers], rows |-> rowsAt(heap, data.rows)]

\* a sheet put on the heap: its row records, its array of rows, its headers
RECURSIVE allocAll(_, _)
allocAll(heap, contents) ==
    IF contents = <<>> THEN heap ELSE allocAll(Append(heap, Head(contents)), Tail(contents))

allocSheet(heap, sheet) ==
    LET records == allocAll(heap, sheet.rows)
        rows == alloc(records, [i \in 1..Len(sheet.rows) |-> Len(heap) + i])
        headers == alloc(rows.heap, sheet.headers)
    IN [heap |-> headers.heap, data |-> [headers |-> headers.at, rows |-> rows.at]]

\* statistics.ts sortStatistics
sortStatisticsAt(heap, results, sortBy, sortOrder) ==
    IF sortOrder = "none" THEN [heap |-> heap, result |-> results]
    ELSE LET sorted == spread(heap, results)
         IN [heap |-> sortAt(sorted.heap, sorted.at,
                             LAMBDA a, b : compareStatistics(a, b, sortBy, sortOrder)),
             result |-> sorted.at]

\* const existing = groups.get(groupValue) || []; existing.push(row);
\* groups.set(groupValue, existing)
registerAt(state, groupValue, row) ==
    IF groupValue = <<>> THEN state
    ELSE IF hasKey(state.groups, groupValue)
    THEN [state EXCEPT !.heap = pushAt(@, get(state.groups, groupValue), row)]
    ELSE LET existing == alloc(state.heap, <<>>)
         IN [heap |-> pushAt(existing.heap, existing.at, row),
             groups |-> Append(state.groups, [k |-> groupValue, v |-> existing.at])]

RECURSIVE registerAllAt(_, _, _)
registerAllAt(state, groupValues, row) ==
    IF groupValues = <<>> THEN state
    ELSE registerAllAt(registerAt(state, Head(groupValues), row), Tail(groupValues), row)

\* statistics.ts groupByField: the Map holds the address of each group's array
RECURSIVE groupRowsAt(_, _, _, _)
groupRowsAt(heap, rows, n, field) ==
    IF n = 0 THEN [heap |-> heap, groups |-> <<>>]
    ELSE registerAllAt(groupRowsAt(heap, rows, n - 1, field),
                       groupValuesOf(heap[heap[rows][n]], field),
                       heap[rows][n])

groupByFieldAt(heap, rows, field) == groupRowsAt(heap, rows, Len(heap[rows]), field)

\* statistics.ts calculateStatistics: results is a new array, which
\* sortStatistics receives
calculateStatisticsAt(heap, data, config) ==
    LET grouped == groupByFieldAt(heap, data.rows, config.groupByField)
        results == alloc(grouped.heap,
                         calculateStatistics(sheetAt(heap, data),
                                             [config EXCEPT !.sortOrder = "none"]))
    IN sortStatisticsAt(results.heap, results.at, config.sortBy, config.sortOrder)

\* calculateNameStatistics, lines 241-249: the names one row contributes
nameValuesOf(row, nameField) ==
    LET nameValueRaw == sanitizeValue(get(row, nameField))
    IN IF isNameField(nameField) /\
          (listIncludes(nameValueRaw, "\n") \/ listIncludes(nameValueRaw, "\r"))
       THEN splitByNewline(nameValueRaw)
       ELSE <<nameValueRaw>>

\* calculateNameStatistics, lines 237-264: the Map of group value -> Set of
\* names, a Set being the list of its elements in insertion order
RECURSIVE nameGroups(_, _)
nameGroups(rows, config) ==
    IF rows = <<>> THEN <<>>
    ELSE LET groups == nameGroups(SubSeq(rows, 1, Len(rows) - 1), config)
             row == rows[Len(rows)]
             groupValue == sanitizeValue(get(row, config.groupByField))
             nameValueRaw == sanitizeValue(get(row, config.nameField))
             names == filterNonEmpty(nameValuesOf(row, config.nameField))
         IN IF groupValue = <<>> \/ nameValueRaw = <<>> THEN groups
            ELSE IF hasKey(groups, groupValue)
            THEN [i \in 1..Len(groups) |->
                     IF groups[i].k = groupValue
                     THEN [k |-> groupValue, v |-> uniqueInOrder(groups[i].v \o names)]
                     ELSE groups[i]]
            ELSE Append(groups, [k |-> groupValue, v |-> uniqueInOrder(names)])

compareNameRows(a, b) == localeCompare(a.groupValue, b.groupValue)

\* name statistics whose rows stay in the order in which the groups were met
calculateNameStatistics_encounterOrder(data, config) ==
    LET groups == nameGroups(data.rows, config)
    IN [g \in 1..Len(groups) |->
           [id |-> g, groupValue |-> groups[g].k,
            names |-> sortWith(groups[g].v, localeCompare)]]

\* part_001 calculateNameStatistics
calculateNameStatistics(data, config) ==
    LET groups == nameGroups(data.rows, config)
        results == [g \in 1..Len(groups) |->
                       [id |-> g, groupValue |-> groups[g].k,
                        names |-> sortWith(groups[g].v, localeCompare)]]
    IN sortWith(results, compareNameRows)

\* the names array of each group is a new array sorted in place
RECURSIVE nameArraysAt(_, _, _)
nameArraysAt(heap, groups, n) ==
    IF n = 0 THEN [heap |-> heap, rows |-> <<>>]
    ELSE LET before == nameArraysAt(heap, groups, n - 1)
             names == alloc(before.heap, groups[n].v)
         IN [heap |-> sortAt(names.heap, names.at, localeCompare),
             rows |-> Append(before.rows,
                             [id |-> n, groupValue |-> groups[n].k, names |-> names.at])]

\* part_001 calculateNameStatistics: results is a new array sorted in place
calculateNameStatisticsAt(heap, data, config) ==
    LET groups == nameGroups(rowsAt(heap, data.rows), config)
        named == nameArraysAt(heap, groups, Len(groups))
        results == alloc(named.heap, named.rows)
    IN [heap |-> sortAt(results.heap, results.at, compareNameRows), result |-> results.at]

\* new arrays, one after the other
RECURSIVE allocEach(_, _)
allocEach(heap, contents) ==
    IF contents = <<>> THEN heap
    ELSE allocEach(alloc(heap, Head(contents)).heap, Tail(contents))

\* transform.ts buildComparisonResult: comparedColumns, onlyInBase,
\* mismatchedRows, onlyInTarget and the two duplicate lists are new arrays, in
\* this order; the three lists are then sorted in place
comparisonArraysAt(heap, result) ==
    sortAt(sortAt(sortAt(allocEach(heap, << result.comparedColumns, result.onlyInBase,
                                            result.mismatchedRows, result.onlyInTarget,
                                            result.duplicateKeys.base,
                                            result.duplicateKeys.target >>),
                         Len(heap) + 2, sortByKey),
                  Len(heap) + 4, sortByKey),
           Len(heap) + 3, sortByRowKey)

buildComparisonResultAt(heap, base, target, key) ==
    [heap |-> comparisonArraysAt(heap, buildComparisonResult(sheetAt(heap, base),
                                                             sheetAt(heap, target), key)),
     result |-> [comparedColumns |-> Len(heap) + 1, onlyInBase |-> Len(heap) + 2,
                 mismatchedRows |-> Len(heap) + 3, onlyInTarget |-> Len(heap) + 4,
                 duplicateKeys |-> [base |-> Len(heap) + 5, target |-> Len(heap) + 6]]]

-----------------------------------------------------------------------------
(* App.tsx applyMapping, lines 433-490: the merge on the primary key, statement
   by statement, with its two counters *)

\* columns.find(...)?.key: Undefined without such a column
primaryColumnKeyOf(columns) ==
    LET normalizedPrimaryName == toLowerCase(normalizeKey(PRIMARY_FIELD_NAME))
        primary == { i \in 1..Len(columns) :
                       toLowerCase(normalizeKey(columns[i].key)) = normalizedPrimaryName }
    IN IF primary = {} THEN Undefined
       ELSE columns[CHOOSE i \in primary : \A j \in primary : i <= j].key

\* rawRows.forEach, lines 445-454: a record without a key value goes to
\* mergedRawRows at once, any other record into the group of its key value
RECURSIVE groupRawRows(_, _)
groupRawRows(rawRows, primaryColumnKey) ==
    IF rawRows = <<>> THEN [mergedRawRows |-> <<>>, grouped |-> <<>>]
    ELSE LET before == groupRawRows(SubSeq(rawRows, 1, Len(rawRows) - 1), primaryColumnKey)
             raw == rawRows[Len(rawRows)]
             keyValue == sanitizeValue(get(raw, primaryColumnKey))
         IN IF keyValue = <<>>
            THEN [before EXCEPT !.mergedRawRows = Append(@, raw)]
            ELSE IF hasKey(before.grouped, keyValue)
            THEN [before EXCEPT !.grouped =
                     [i \in 1..Len(@) |->
                         IF @[i].k = keyValue
                         THEN [k |-> keyValue, v |-> Append(@[i].v, raw)] ELSE @[i]]]
            ELSE [before EXCEPT !.grouped = Append(@, [k |-> keyValue, v |-> <<raw>>])]

\* a group merged into a record that keeps the first distinct value of a column
mergeGroup_firstValue(group, columns) ==
    LET uniqueValues(key) ==
            uniqueInOrder(filterNonEmpty(
                [i \in 1..Len(group) |-> sanitizeValue(get(group[i], key))]))
        conflicting == SelectSeq(columns, LAMBDA column : Len(uniqueValues(column.key)) > 1)
    IN [merged |-> [c \in 1..Len(columns) |->
                       [k |-> columns[c].key,
                        v |-> IF uniqueValues(columns[c].key) = <<>> THEN <<>>
                              ELSE uniqueValues(columns[c].key)[1]]],
        conflicts |-> [i \in 1..Len(conflicting) |-> conflicting[i].key]]

\* columns.forEach, lines 466-479: the merged record and the conflicting columns
mergeGroup(group, columns) ==
    LET uniqueValues(key) ==
            uniqueInOrder(filterNonEmpty(
                [i \in 1..Len(group) |-> sanitizeValue(get(group[i], key))]))
        conflicting == SelectSeq(columns, LAMBDA column : Len(uniqueValues(column.key)) > 1)
    IN [merged |-> [c \in 1..Len(columns) |->
                       [k |-> columns[c].key,
                        v |-> join(uniqueValues(columns[c].key), ConflictSeparator)]],
        conflicts |-> [i \in 1..Len(conflicting) |-> conflicting[i].key]]

\* grouped.forEach over the first n groups, counting members beyond the first
\* of every group as a merged record
RECURSIVE mergeGroups_countGroups(_, _, _, _)
mergeGroups_countGroups(state, grouped, n, columns) ==
    IF n = 0 THEN state
    ELSE LET before == mergeGroups_countGroups(state, grouped, n - 1, columns)
             group == grouped[n].v
             one == mergeGroup(group, columns)
         IN IF Len(group) = 1
            THEN [before EXCEPT !.mergedRawRows = Append(@, group[1])]
            ELSE [mergedRawRows |-> Append(before.mergedRawRows, one.merged),
                  mergedCount |-> before.mergedCount + 1,
                  conflictCount |-> before.conflictCount +
                                    (IF one.conflicts # <<>> THEN 1 ELSE 0)]

\* grouped.forEach, lines 456-487, over the first n groups
RECURSIVE mergeGroups(_, _, _, _)
mergeGroups(state, grouped, n, columns) ==
    IF n = 0 THEN state
    ELSE LET before == mergeGroups(state, grouped, n - 1, columns)
             group == grouped[n].v
             one == mergeGroup(group, columns)
         IN IF Len(group) = 1
            THEN [before EXCEPT !.mergedRawRows = Append(@, group[1])]
            ELSE [mergedRawRows |-> Append(before.mergedRawRows, one.merged),
                  mergedCount |-> before.mergedCount + Len(group) - 1,
                  conflictCount |-> before.conflictCount +
                                    (IF one.conflicts # <<>> THEN 1 ELSE 0)]

\* a merge that lists the key groups ahead of the records without a key value
mergeOnPrimaryKey_keyedFirst(rawRows, columns) ==
    LET primaryColumnKey == primaryColumnKeyOf(columns)
    IN IF primaryColumnKey # Undefined /\ rawRows # <<>>
       THEN LET phase == groupRawRows(rawRows, primaryColumnKey)
                groups == mergeGroups([mergedRawRows |-> <<>>, mergedCount |-> 0,
                                       conflictCount |-> 0],
                                      phase.grouped, Len(phase.grouped), columns)
            IN [groups EXCEPT !.mergedRawRows = @ \o phase.mergedRawRows]
       ELSE [mergedRawRows |-> rawRows, mergedCount |-> 0, conflictCount |-> 0]

\* a merge that leaves the records without a key value out
mergeOnPrimaryKey_dropUnkeyed(rawRows, columns) ==
    LET primaryColumnKey == primaryColumnKeyOf(columns)
    IN IF primaryColumnKey # Undefined /\ rawRows # <<>>
       THEN LET phase == groupRawRows(rawRows, primaryColumnKey)
            IN mergeGroups([mergedRawRows |-> <<>>, mergedCount |-> 0,
                            conflictCount |-> 0],
                           phase.grouped, Len(phase.grouped), columns)
       ELSE [mergedRawRows |-> rawRows, mergedCount |-> 0, conflictCount |-> 0]

\* lines 439-490: mergedRawRows, mergedCount and conflictCount
mergeOnPrimaryKey(rawRows, columns) ==
    LET primaryColumnKey == primaryColumnKeyOf(columns)
    IN IF primaryColumnKey # Undefined /\ rawRows # <<>>
       THEN LET phase == groupRawRows(rawRows, primaryColumnKey)
            IN mergeGroups([mergedRawRows |-> phase.mergedRawRows, mergedCount |-> 0,
                            conflictCount |-> 0],
                           phase.grouped, Len(phase.grouped), columns)
       ELSE [mergedRawRows |-> rawRows, mergedCount |-> 0, conflictCount |-> 0]

-----------------------------------------------------------------------------
(* applyMapping's merge called on imported records *)

\* the longest list of imported records merged
MaxMergeRows == 3

MergeKeys == { <<>>, <<"1">>, <<"2">> }
MergeRemarks == { <<>>, <<"x">>, <<"y">> }

\* records of the roster file, and a record of a file without the key column
MergeRecords ==
    { CellRow(RosterHeaders, <<k, r>>) : k \in MergeKeys, r \in MergeRemarks }
        \cup { CellRow(<<BeiZhu>>, << <<"x">> >>) }

MergeInputs == UNION { [1..n -> MergeRecords] : n \in 1..MaxMergeRows }

\* the columns handleFileChange derives from the records, lines 292-295
columnsOf(rawRows) == buildColumns(rawRows, <<>>)

InitMerge ==
    /\ call \in { [fn |-> "applyMapping", stage |-> "input", rawRows |-> rawRows,
                   columns |-> columnsOf(rawRows),
                   result |-> [mergedRawRows |-> <<>>, mergedCount |-> 0,
                               conflictCount |-> 0]] : rawRows \in MergeInputs }
    /\ EmptyWorkspace
    /\ pipeline = None
    /\ roundTrip = None
    /\ layout = None
    /\ comparison = None
    /\ subtract = None
    /\ statistics = None

RunMerge ==
    /\ call.stage = "input"
    /\ call' = [call EXCEPT !.stage = "done",
                            !.result = mergeOnPrimaryKey(call.rawRows, call.columns)]
    /\ UNCHANGED <<workspace, pipeline, roundTrip, layout, comparison, subtract, statistics>>

NextMerge == RunMerge

SpecMerge == InitMerge /\ [][NextMerge]_vars

\* the key value of an imported record, empty without the key column
mergeKeyOf(raw) == sanitizeValue(get(raw, PRIMARY_FIELD_NAME))

\* the positions of the records that carry the key value k
membersOf(rawRows, k) == { i \in 1..Len(rawRows) : mergeKeyOf(rawRows[i]) = k }

\* the key values that more than one record carries
sharedKeys(rawRows) ==
    { k \in { mergeKeyOf(rawRows[i]) : i \in 1..Len(rawRows) } :
        k # <<>> /\ Cardinality(membersOf(rawRows, k)) > 1 }

\* the distinct non-empty values of a column among the records at positions
\* members, listed by the position of their first occurrence
firstSeenValues(rawRows, members, key) ==
    LET valueAt(i) == sanitizeValue(get(rawRows[i], key))
        distinct == { valueAt(i) : i \in members } \ { <<>> }
        firstAt(v) == CHOOSE i \in members :
                          valueAt(i) = v /\ \A j \in members : valueAt(j) = v => i <= j
    IN IF distinct = {} THEN <<>>
       ELSE CHOOSE s \in [1..Cardinality(distinct) -> distinct] :
                \A i, j \in DOMAIN s : i < j => firstAt(s[i]) < firstAt(s[j])

\* C14: a key value shared by several records yields one merged record, and in
\* it a column is empty when no member has a value, the single distinct value
\* when there is one, and otherwise the distinct values in first-seen order
\* joined by " | ", the group then counting as conflicting.
C14_MergedColumnValues ==
    (call.fn = "applyMapping" /\ call.stage = "done") =>
        \A k \in sharedKeys(call.rawRows) :
            LET members == membersOf(call.rawRows, k)
                produced == { i \in 1..Len(call.result.mergedRawRows) :
                                mergeKeyOf(call.result.mergedRawRows[i]) = k }
            IN /\ Cardinality(produced) = 1
               /\ \A i \in produced : \A c \in 1..Len(call.columns) :
                    LET key == call.columns[c].key
                        seen == firstSeenValues(call.rawRows, members, key)
                        cell == get(call.result.mergedRawRows[i], key)
                    IN /\ Len(seen) = 0 => cell = <<>>
                       /\ Len(seen) = 1 => cell = seen[1]
                       /\ Len(seen) > 1 =>
                            /\ cell = join(seen, <<" ", "|", " ">>)
                            /\ call.result.conflictCount >= 1

\* three records of key 1 with the remarks y, x, y: merged into "y | x"
C14_Witness ==
    /\ call.fn = "applyMapping"
    /\ call.stage = "done"
    /\ Len(call.rawRows) = 3
    /\ \A i \in 1..3 : mergeKeyOf(call.rawRows[i]) = <<"1">>
    /\ [i \in 1..3 |-> get(call.rawRows[i], BeiZhu)] = << <<"y">>, <<"x">>, <<"y">> >>
    /\ Len(call.result.mergedRawRows) = 1
    /\ get(call.result.mergedRawRows[1], BeiZhu) = <<"y", " ", "|", " ", "x">>
    /\ call.result.conflictCount = 1

\* C18: a record whose primary key value is empty passes through the merge
\* unchanged and exactly once: it is neither merged into another record nor
\* dropped, and the merge produces no other record with an empty key.
C18_UnkeyedRecordsKept ==
    (call.fn = "applyMapping" /\ call.stage = "done") =>
        \A record \in Range(call.rawRows) \cup Range(call.result.mergedRawRows) :
            mergeKeyOf(record) = <<>> =>
                occurrences(call.result.mergedRawRows, record)
                    = occurrences(call.rawRows, record)

\* a record without a key value between two records of key 1 that are merged
C18_Witness ==
    /\ call.fn = "applyMapping"
    /\ call.stage = "done"
    /\ Len(call.rawRows) = 3
    /\ mergeKeyOf(call.rawRows[1]) = <<"1">>
    /\ mergeKeyOf(call.rawRows[2]) = <<>>
    /\ hasKey(call.rawRows[2], PRIMARY_FIELD_NAME)
    /\ mergeKeyOf(call.rawRows[3]) = <<"1">>
    /\ Len(call.result.mergedRawRows) = 2
    /\ call.result.mergedRawRows[1] = call.rawRows[2]

\* the key values of the records, the empty one left out
keyValuesOf(rawRows) == { mergeKeyOf(rawRows[i]) : i \in 1..Len(rawRows) } \ { <<>> }

\* C19: the merged count is the sum over the key groups of the group size
\* minus one, the conflict count is the number of groups with a column of
\* several distinct values, and the merge produces as many records as it was
\* given minus the merged count.
C19_MergeReport ==
    (call.fn = "applyMapping" /\ call.stage = "done") =>
        LET rawRows == call.rawRows
            keyed == { i \in 1..Len(rawRows) : mergeKeyOf(rawRows[i]) # <<>> }
            conflicting ==
                { k \in keyValuesOf(rawRows) :
                    \E c \in 1..Len(call.columns) :
                        Len(firstSeenValues(rawRows, membersOf(rawRows, k),
                                            call.columns[c].key)) > 1 }
        IN /\ call.result.mergedCount = Cardinality(keyed) - Cardinality(keyValuesOf(rawRows))
           /\ call.result.conflictCount = Cardinality(conflicting)
           /\ Len(call.result.mergedRawRows) = Len(rawRows) - call.result.mergedCount

\* three records of one key with two remarks: two merged, one conflict
C19_Witness ==
    /\ call.fn = "applyMapping"
    /\ call.stage = "done"
    /\ Cardinality(membersOf(call.rawRows, <<"2">>)) = 3
    /\ call.result.mergedCount = 2
    /\ call.result.conflictCount = 1
    /\ Len(call.result.mergedRawRows) = 1

\* the position of the first record that carries the key value k
firstMemberOf(rawRows, k) ==
    CHOOSE i \in membersOf(rawRows, k) : \A j \in membersOf(rawRows, k) : i <= j

\* C29: with a primary-key column the merge lists the records without a key
\* value first, in input order, and then one record per distinct key value in
\* the order in which the key values first occur; a record without a key value
\* thereby moves ahead of a keyed record that preceded it.  Without a
\* primary-key column the output is the list of records as given.
C29_MergeOrder ==
    (call.fn = "applyMapping" /\ call.stage = "done") =>
        LET rawRows == call.rawRows
            output == call.result.mergedRawRows
            unkeyed == SelectSeq(rawRows, LAMBDA raw : mergeKeyOf(raw) = <<>>)
            keyed == Len(unkeyed) + 1 .. Len(output)
        IN IF \E c \in 1..Len(call.columns) : call.columns[c].key = PRIMARY_FIELD_NAME
           THEN /\ Len(output) = Len(unkeyed) + Cardinality(keyValuesOf(rawRows))
                /\ SubSeq(output, 1, Len(unkeyed)) = unkeyed
                /\ { mergeKeyOf(output[i]) : i \in keyed } = keyValuesOf(rawRows)
                /\ \A i, j \in keyed :
                     i < j => firstMemberOf(rawRows, mergeKeyOf(output[i]))
                                < firstMemberOf(rawRows, mergeKeyOf(output[j]))
           ELSE output = rawRows

\* key 2, no key, key 1: the record without a key comes first, then 2, then 1
C29_Witness ==
    /\ call.fn = "applyMapping"
    /\ call.stage = "done"
    /\ [i \in 1..Len(call.rawRows) |-> mergeKeyOf(call.rawRows[i])]
           = << <<"2">>, <<>>, <<"1">> >>
    /\ call.result.mergedRawRows
           = << call.rawRows[2], call.rawRows[1], call.rawRows[3] >>

-----------------------------------------------------------------------------
(* validation.ts guessFieldType called on lists of samples *)

\* the longest list drawn from SampleValues
MaxSamples == 5

SampleValues ==
    { <<>>, <<"1">>, <<"1", ",", "0">>, <<"a">>, <<"H", "t", "t", "p", ":", "/", "/", "x">>,
      <<"a", ",", "b">>, <<"a", "ideographic-comma", "b">> }

\* the i-th of a series of distinct words
word(i) == [j \in 1..i |-> "a"]

\* the longest list of distinct words
MaxDistinct == 17

\* n distinct words, the first with or without a separator in it
DistinctSamples ==
    { [i \in 1..n |-> IF i = 1 THEN first ELSE word(i)] :
        n \in 1..MaxDistinct, first \in { <<"a">>, <<"a", ",", "b">>, <<"a", "ideographic-comma", "b">> } }

GuessInputs == UNION { [1..n -> SampleValues] : n \in 0..MaxSamples } \cup DistinctSamples

InitGuess ==
    /\ call \in { [fn |-> "guessFieldType", stage |-> "input", samples |-> samples,
                   result |-> "text"] : samples \in GuessInputs }
    /\ EmptyWorkspace
    /\ pipeline = None
    /\ roundTrip = None
    /\ layout = None
    /\ comparison = None
    /\ subtract = None
    /\ statistics = None

RunGuess ==
    /\ call.stage = "input"
    /\ call' = [call EXCEPT !.stage = "done", !.result = guessFieldType(call.samples)]
    /\ UNCHANGED <<workspace, pipeline, roundTrip, layout, comparison, subtract, statistics>>

NextGuess == RunGuess

SpecGuess == InitGuess /\ [][NextGuess]_vars

\* at least percent per cent of total samples, of which there are some, are hits
share(hits, total, percent) == total > 0 /\ 100 * hits >= percent * total

\* C15: guessFieldType is the cascade text (no samples), number (at least 80%
\* of the non-empty samples numeric once commas are stripped), link (at least
\* 40% with an http:// or https:// prefix in any case), singleSelect (2 to 6
\* distinct non-empty values), multiSelect (a sample with ',' or the
\* ideographic comma and at most 15 distinct values), text; the first rule
\* that matches wins, and one distinct value is never a singleSelect.
C15_GuessCascade ==
    (call.fn = "guessFieldType" /\ call.stage = "done") =>
        LET present == { i \in 1..Len(call.samples) : call.samples[i] # <<>> }
            numeric == { i \in present : isNumeric(removeChar(call.samples[i], ",")) }
            links == { i \in present :
                         \E prefix \in { <<"h", "t", "t", "p", ":", "/", "/">>,
                                         <<"h", "t", "t", "p", "s", ":", "/", "/">> } :
                             /\ Len(call.samples[i]) >= Len(prefix)
                             /\ toLowerCase(SubSeq(call.samples[i], 1, Len(prefix))) = prefix }
            distinct == Cardinality({ call.samples[i] : i \in present })
            separated == \E i \in present : \E j \in 1..Len(call.samples[i]) :
                             call.samples[i][j] \in { ",", "ideographic-comma" }
            isText == call.samples = <<>>
            isNumber == share(Cardinality(numeric), Cardinality(present), 80)
            isLink == share(Cardinality(links), Cardinality(present), 40)
            isSingle == distinct > 1 /\ distinct <= 6
            isMulti == separated /\ distinct <= 15
        IN /\ call.result = (IF isText THEN "text"
                             ELSE IF isNumber THEN "number"
                             ELSE IF isLink THEN "link"
                             ELSE IF isSingle THEN "singleSelect"
                             ELSE IF isMulti THEN "multiSelect"
                             ELSE "text")
           /\ distinct = 1 => call.result # "singleSelect"

\* one value repeated, with a separator in it: a multiSelect, not a singleSelect
C15_Witness ==
    /\ call.fn = "guessFieldType"
    /\ call.stage = "done"
    /\ call.samples = << <<"a", ",", "b">>, <<"a", ",", "b">>, <<"a", ",", "b">> >>
    /\ call.result = "multiSelect"

-----------------------------------------------------------------------------
(* statistics.ts calculateStatistics: the values the aggregates are taken over *)

\* the aggregate-field cells of a group's member rows, commas stripped
aggregateCells(groupValue) ==
    LET members == get(groupByField(statistics.data.rows, statistics.config.groupByField),
                       groupValue)
    IN [i \in 1..Len(members) |->
           removeChar(sanitizeValue(get(members[i], statistics.config.aggregateField)), ",")]

\* C20: for sum, average, max and min a group's result is taken over the
\* member rows whose sanitized aggregate value, commas stripped, is a number;
\* a row with any other value, an empty or absent cell included, is left out,
\* and a group without a numeric value has the result 0.
C20_NumericValuesOnly ==
    (statistics.stage = "done" /\ statistics.config.aggregateType # "count") =>
        \A r \in 1..Len(statistics.results) :
            LET cells == aggregateCells(statistics.results[r].groupValue)
                numeric == SelectSeq(cells, LAMBDA cell : cell # <<>> /\ isNumeric(cell))
                values == [i \in 1..Len(numeric) |-> numberValue(numeric[i])]
            IN statistics.results[r].aggregateValue
                   = aggregate(values, statistics.config.aggregateType)

-----------------------------------------------------------------------------
(* The subtraction partitioning and the merge over the heap *)

\* handleRunSubtract, lines 761-775: the Map holds the address of a key's row
RECURSIVE subtractKeyMapAt(_, _, _, _)
subtractKeyMapAt(heap, rows, n, key) ==
    IF n = 0 THEN <<>>
    ELSE LET map == subtractKeyMapAt(heap, rows, n - 1, key)
             row == heap[rows][n]
             keyValue == sanitizeValue(get(heap[row], key))
         IN IF keyValue = <<>> THEN map
            ELSE IF hasKey(map, keyValue)
            THEN [i \in 1..Len(map) |->
                     IF map[i].k = keyValue THEN [k |-> keyValue, v |-> row] ELSE map[i]]
            ELSE Append(map, [k |-> keyValue, v |-> row])

\* handleRunSubtract, lines 777-793: three new arrays, filled with the
\* addresses of rows of the two sheets
subtractPartitionsAt(heap, base, target, key) ==
    LET baseKeys == subtractKeyMapAt(heap, base.rows, Len(heap[base.rows]), key)
        targetKeys == subtractKeyMapAt(heap, target.rows, Len(heap[target.rows]), key)
        onlyInARows ==
            alloc(heap, valuesOf(SelectSeq(baseKeys, LAMBDA e : ~hasKey(targetKeys, e.k))))
        onlyInBRows ==
            alloc(onlyInARows.heap,
                  valuesOf(SelectSeq(targetKeys, LAMBDA e : ~hasKey(baseKeys, e.k))))
        commonRows ==
            alloc(onlyInBRows.heap,
                  valuesOf(SelectSeq(baseKeys, LAMBDA e : hasKey(targetKeys, e.k))))
    IN [heap |-> commonRows.heap,
        result |-> [onlyInA |-> onlyInARows.at, onlyInB |-> onlyInBRows.at,
                    common |-> commonRows.at]]

\* applyMapping, lines 445-454, over the first n records: mergedRawRows.push(raw),
\* or existing.push(raw) on the array of the record's group, new or not
RECURSIVE groupRawRowsAt(_, _, _, _, _)
groupRawRowsAt(heap, rawRows, n, primaryColumnKey, mergedArray) ==
    IF n = 0 THEN [heap |-> heap, grouped |-> <<>>]
    ELSE LET before == groupRawRowsAt(heap, rawRows, n - 1, primaryColumnKey, mergedArray)
             raw == heap[rawRows][n]
             keyValue == sanitizeValue(get(heap[raw], primaryColumnKey))
         IN IF keyValue = <<>>
            THEN [before EXCEPT !.heap = pushAt(@, mergedArray, raw)]
            ELSE IF hasKey(before.grouped, keyValue)
            THEN [before EXCEPT !.heap = pushAt(@, get(before.grouped, keyValue), raw)]
            ELSE LET existing == alloc(before.heap, <<>>)
                 IN [heap |-> pushAt(existing.heap, existing.at, raw),
                     grouped |-> Append(before.grouped, [k |-> keyValue, v |-> existing.at])]

\* applyMapping, lines 456-487, over the first n groups: mergedRawRows.push(group[0]),
\* or a new record merged, a new array conflicts and mergedRawRows.push(merged)
RECURSIVE mergeGroupsAt(_, _, _, _, _)
mergeGroupsAt(heap, grouped, n, columns, mergedArray) ==
    IF n = 0 THEN heap
    ELSE LET before == mergeGroupsAt(heap, grouped, n - 1, columns, mergedArray)
             group == before[grouped[n].v]
             one == mergeGroup(rowsAt(before, grouped[n].v), before[columns])
             merged == alloc(before, one.merged)
             conflicts == alloc(merged.heap, one.conflicts)
         IN IF Len(group) = 1 THEN pushAt(before, mergedArray, group[1])
            ELSE pushAt(conflicts.heap, mergedArray, merged.at)

\* applyMapping, lines 439-490: mergedRawRows is a new array, or rawRows itself
\* without a primary column
mergeOnPrimaryKeyAt(heap, rawRows, columns) ==
    LET primaryColumnKey == primaryColumnKeyOf(heap[columns])
        mergedArray == alloc(heap, <<>>)
    IN IF primaryColumnKey # Undefined /\ heap[rawRows] # <<>>
       THEN LET phase == groupRawRowsAt(mergedArray.heap, rawRows, Len(heap[rawRows]),
                                        primaryColumnKey, mergedArray.at)
            IN [heap |-> mergeGroupsAt(phase.heap, phase.grouped, Len(phase.grouped),
                                       columns, mergedArray.at),
                result |-> mergedArray.at]
       ELSE [heap |-> mergedArray.heap, result |-> rawRows]

-----------------------------------------------------------------------------
(* One engine called on inputs that lie on the heap *)

\* a call of an engine: the heap it is called with, the addresses of its
\* inputs (all of that heap), and the heap it leaves
engineCall(fn, heap, args) ==
    [fn |-> fn, stage |-> "input", before |-> heap, args |-> args,
     after |-> heap, result |-> <<>>]

\* two sheets on one heap
twoSheets(a, b) ==
    LET base == allocSheet(<<>>, a)
        target == allocSheet(base.heap, b)
    IN [heap |-> target.heap, base |-> base.data, target |-> target.data]

\* the two-sheet engines on every pair of sheets and either key column
SheetCalls(fn) ==
    \E a \in Sheets, b \in Sheets, k \in {JiaoYuId, BeiZhu} :
        LET sheets == twoSheets(a, b)
        IN call = engineCall(fn, sheets.heap,
                             [base |-> sheets.base, target |-> sheets.target, key |-> k])

StatSheets(header) ==
    UNION { { [headers |-> <<header, ShuLiang>>, rows |-> rows] :
                rows \in [1..n -> StatRows(header)] } : n \in 1..MaxStatRows }

GroupCalls ==
    \E header \in {XingMing, BuMen} : \E sheet \in StatSheets(header) :
        call = engineCall("groupByField", allocSheet(<<>>, sheet).heap,
                          [data |-> allocSheet(<<>>, sheet).data, field |-> header])

StatisticsCalls ==
    \E header \in {XingMing, BuMen} :
        \E sheet \in StatSheets(header), config \in StatConfigs(header) :
            call = engineCall("calculateStatistics", allocSheet(<<>>, sheet).heap,
                              [data |-> allocSheet(<<>>, sheet).data, config |-> config])

\* the list sortStatistics is given: results in the order of the groups
SortCalls ==
    \E header \in {XingMing, BuMen} :
        \E sheet \in StatSheets(header), config \in StatConfigs(header) :
            call = engineCall("sortStatistics",
                              << calculateStatistics(sheet,
                                                     [config EXCEPT !.sortOrder = "none"]) >>,
                              [results |-> 1, sortBy |-> config.sortBy,
                               sortOrder |-> config.sortOrder])

NameCalls ==
    \E sheet \in StatSheets(XingMing) :
        call = engineCall("calculateNameStatistics", allocSheet(<<>>, sheet).heap,
                          [data |-> allocSheet(<<>>, sheet).data,
                           config |-> [groupByField |-> ShuLiang, nameField |-> XingMing]])

\* rawRows and columns of the workspace: the columns take the place of the headers
MergeCalls ==
    \E rawRows \in MergeInputs :
        LET state == allocSheet(<<>>, [headers |-> columnsOf(rawRows), rows |-> rawRows])
        IN call = engineCall("applyMapping", state.heap, state.data)

InitFrame ==
    /\ \/ SheetCalls("buildComparisonResult")
       \/ SheetCalls("handleRunSubtract")
       \/ GroupCalls
       \/ StatisticsCalls
       \/ SortCalls
       \/ NameCalls
       \/ MergeCalls
    /\ EmptyWorkspace
    /\ pipeline = None
    /\ roundTrip = None
    /\ layout = None
    /\ comparison = None
    /\ subtract = None
    /\ statistics = None

\* the call returns: the heap it leaves and its result
returned(outcome) ==
    [call EXCEPT !.stage = "done", !.after = outcome.heap, !.result = outcome.result]

CallBuildComparisonResult ==
    /\ call.fn = "buildComparisonResult"
    /\ call.stage = "input"
    /\ call' = returned(buildComparisonResultAt(call.before, call.args.base,
                                                call.args.target, call.args.key))
    /\ UNCHANGED <<workspace, pipeline, roundTrip, layout, comparison, subtract, statistics>>

CallSubtractPartitions ==
    /\ call.fn = "handleRunSubtract"
    /\ call.stage = "input"
    /\ call' = returned(subtractPartitionsAt(call.before, call.args.base,
                                             call.args.target, call.args.key))
    /\ UNCHANGED <<workspace, pipeline, roundTrip, layout, comparison, subtract, statistics>>

CallGroupByField ==
    /\ call.fn = "groupByField"
    /\ call.stage = "input"
    /\ LET grouped == groupByFieldAt(call.before, call.args.data.rows, call.args.field)
       IN call' = returned([heap |-> grouped.heap, result |-> grouped.groups])
    /\ UNCHANGED <<workspace, pipeline, roundTrip, layout, comparison, subtract, statistics>>

CallCalculateStatistics ==
    /\ call.fn = "calculateStatistics"
    /\ call.stage = "input"
    /\ call' = returned(calculateStatisticsAt(call.before, call.args.data, call.args.config))
    /\ UNCHANGED <<workspace, pipeline, roundTrip, layout, comparison, subtract, statistics>>

CallSortStatistics ==
    /\ call.fn = "sortStatistics"
    /\ call.stage = "input"
    /\ call' = returned(sortStatisticsAt(call.before, call.args.results, call.args.sortBy,
                                         call.args.sortOrder))
    /\ UNCHANGED <<workspace, pipeline, roundTrip, layout, comparison, subtract, statistics>>

CallCalculateNameStatistics ==
    /\ call.fn = "calculateNameStatistics"
    /\ call.stage = "input"
    /\ call' = returned(calculateNameStatisticsAt(call.before, call.args.data,
                                                  call.args.config))
    /\ UNCHANGED <<workspace, pipeline, roundTrip, layout, comparison, subtract, statistics>>

CallMerge ==
    /\ call.fn = "applyMapping"
    /\ call.stage = "input"
    /\ call' = returned(mergeOnPrimaryKeyAt(call.before, call.args.rows, call.args.headers))
    /\ UNCHANGED <<workspace, pipeline, roundTrip, layout, comparison, subtract, statistics>>

NextFrame ==
    \/ CallBuildComparisonResult
    \/ CallSubtractPartitions
    \/ CallGroupByField
    \/ CallCalculateStatistics
    \/ CallSortStatistics
    \/ CallCalculateNameStatistics
    \/ CallMerge

SpecFrame == InitFrame /\ [][NextFrame]_vars

\* C13: an engine leaves its inputs as they were: after buildComparisonResult,
\* groupByField, calculateStatistics, sortStatistics, calculateNameStatistics,
\* the merge of applyMapping and the subtraction partitioning, every array of
\* rows, row record, header list and result list the call was given holds the
\* elements it held before, in the same order.
C13_InputsUnchanged ==
    call.stage = "done" =>
        /\ Len(call.after) >= Len(call.before)
        /\ \A address \in 1..Len(call.before) : call.after[address] = call.before[address]

\* sortStatistics returns a new list in another order than the list it was given
C13_Witness ==
    /\ call.stage = "done"
    /\ call.fn = "sortStatistics"
    /\ call.result # call.args.results
    /\ call.after[call.result] # call.before[call.args.results]
    /\ call.after[call.args.results] = call.before[call.args.results]

-----------------------------------------------------------------------------
(* part_001 calculateNameStatistics called on a parsed sheet *)

\* the longest sheet given to calculateNameStatistics
MaxNameRows == 3

NameRow(nameField, group, name) ==
    << [k |-> BuMen, v |-> group], [k |-> nameField, v |-> name] >>

\* departments 2 and 10, which the numeric collation orders 2 before 10, or
\* none; one name, two names on two lines, a name twice, or none
NameRows(nameField) ==
    { NameRow(nameField, group, name) :
        group \in { <<>>, <<"1", "0">>, <<"2">> },
        name \in { <<>>, ZhangSan, LiSi, ZhangSan \o <<"\n">> \o LiSi,
                   LiSi \o <<"\r", "\n", " ">> \o LiSi } }

InitNames ==
    /\ \E nameField \in { XingMing, BeiZhu } : \E n \in 1..MaxNameRows :
          \E rows \in [1..n -> NameRows(nameField)] :
             call = [fn |-> "calculateNameStatistics", stage |-> "input",
                     data |-> [headers |-> <<BuMen, nameField>>, rows |-> rows],
                     config |-> [groupByField |-> BuMen, nameField |-> nameField],
                     result |-> <<>>]
    /\ EmptyWorkspace
    /\ pipeline = None
    /\ roundTrip = None
    /\ layout = None
    /\ comparison = None
    /\ subtract = None
    /\ statistics = None

RunNames ==
    /\ call.fn = "calculateNameStatistics"
    /\ call.stage = "input"
    /\ call' = [call EXCEPT !.stage = "done",
                            !.result = calculateNameStatistics(call.data, call.config)]
    /\ UNCHANGED <<workspace, pipeline, roundTrip, layout, comparison, subtract, statistics>>

NextNames == RunNames

SpecNames == InitNames /\ [][NextNames]_vars

\* C21: calculateNameStatistics skips a row whose sanitized group value or
\* name value is empty; the output has one row per group value of the rows
\* not skipped, in ascending order of the comparator, and the names of a row
\* are the distinct names of its group (the lines of the name value under a
\* name-like field, the whole value otherwise), each once, in ascending order.
C21_NameStatistics ==
    (call.fn = "calculateNameStatistics" /\ call.stage = "done") =>
        LET rows == call.data.rows
            groupOf(i) == sanitizeValue(get(rows[i], call.config.groupByField))
            nameOf(i) == sanitizeValue(get(rows[i], call.config.nameField))
            kept == { i \in 1..Len(rows) : groupOf(i) # <<>> /\ nameOf(i) # <<>> }
            namesAt(i) == IF isNameField(call.config.nameField)
                          THEN Range(linesOf(nameOf(i))) \ { <<>> }
                          ELSE { nameOf(i) }
            namesIn(group) == UNION { namesAt(i) : i \in { k \in kept : groupOf(k) = group } }
            result == call.result
        IN /\ { result[r].groupValue : r \in 1..Len(result) } = { groupOf(i) : i \in kept }
           /\ Len(result) = Cardinality({ groupOf(i) : i \in kept })
           /\ \A r, q \in 1..Len(result) :
                r < q => localeCompare(result[r].groupValue, result[q].groupValue) < 0
           /\ \A r \in 1..Len(result) :
                /\ Range(result[r].names) = namesIn(result[r].groupValue)
                /\ Len(result[r].names) = Cardinality(namesIn(result[r].groupValue))
                /\ \A i, j \in 1..Len(result[r].names) :
                     i < j => localeCompare(result[r].names[i], result[r].names[j]) < 0

\* department 10 met before department 2 and a name given on two of its rows:
\* two rows, 2 before 10, the name once
C21_Witness ==
    /\ call.fn = "calculateNameStatistics"
    /\ call.stage = "done"
    /\ call.config.nameField = XingMing
    /\ call.data.rows = << NameRow(XingMing, <<"1", "0">>, ZhangSan \o <<"\n">> \o LiSi),
                           NameRow(XingMing, <<"2">>, LiSi),
                           NameRow(XingMing, <<"1", "0">>, LiSi) >>
    /\ Len(call.result) = 2
    /\ call.result[1].groupValue = <<"2">>
    /\ call.result[2].groupValue = <<"1", "0">>
    /\ Len(call.result[2].names) = 2

-----------------------------------------------------------------------------
(* transform.ts applyValueMappings called on a value and a list of rules *)

\* the longest list of value-mapping rules
MaxMappingRules == 3

MappingValues == { <<>>, <<" ">>, <<"a">>, <<" ", "A", " ">>, <<"b">>, <<"c">> }

\* from and to of a rule: two rules match a, one in another case and with
\* blanks around it; one has the from a new rule starts with, the empty string
MappingRules ==
    { [from |-> <<"a">>, to |-> <<"x">>], [from |-> <<" ", "A">>, to |-> <<"y">>],
      [from |-> <<"B">>, to |-> <<>>], [from |-> <<>>, to |-> <<"y">>],
      [from |-> <<"c", "c">>, to |-> <<"x">>] }

MappingLists == UNION { [1..n -> MappingRules] : n \in 0..MaxMappingRules }

mappingField(rules) ==
    [id |-> 1, name |-> <<"f">>, type |-> "text", sourceKey |-> <<"f">>, required |-> FALSE,
     options |-> <<>>, fixedLength |-> <<>>,
     valueMappings |-> [i \in 1..Len(rules) |-> Rule(i, rules[i].from, rules[i].to)]]

InitMappings ==
    /\ \E value \in MappingValues, rules \in MappingLists :
          call = [fn |-> "applyValueMappings", stage |-> "input", value |-> value,
                  field |-> mappingField(rules), result |-> <<>>]
    /\ EmptyWorkspace
    /\ pipeline = None
    /\ roundTrip = None
    /\ layout = None
    /\ comparison = None
    /\ subtract = None
    /\ statistics = None

RunMappings ==
    /\ call.fn = "applyValueMappings"
    /\ call.stage = "input"
    /\ call' = [call EXCEPT !.stage = "done",
                            !.result = applyValueMappings(call.value, call.field)]
    /\ UNCHANGED <<workspace, pipeline, roundTrip, layout, comparison, subtract, statistics>>

NextMappings == RunMappings

SpecMappings == InitMappings /\ [][NextMappings]_vars

\* C22: for a non-empty value and a non-empty list of rules applyValueMappings
\* returns the to of the first rule, in list order, whose trimmed lower-cased
\* from is the trimmed lower-cased value, and the value itself when no rule
\* matches; an empty value or an empty list of rules returns the value.
C22_FirstMatchingRule ==
    (call.fn = "applyValueMappings" /\ call.stage = "done") =>
        LET rules == call.field.valueMappings
            matching == { i \in 1..Len(rules) :
                            toLowerCase(trim(rules[i].from)) = toLowerCase(trim(call.value)) }
        IN IF call.value = <<>> \/ rules = <<>> \/ matching = {}
           THEN call.result = call.value
           ELSE \E i \in matching :
                   /\ \A j \in matching : i <= j
                   /\ call.result = rules[i].to

\* the value " A " under the rules c c, " A" and a: the second rule wins
C22_Witness ==
    /\ call.fn = "applyValueMappings"
    /\ call.stage = "done"
    /\ call.value = <<" ", "A", " ">>
    /\ Len(call.field.valueMappings) = 3
    /\ call.field.valueMappings[1].from = <<"c", "c">>
    /\ call.field.valueMappings[2].from = <<" ", "A">>
    /\ call.field.valueMappings[3].from = <<"a">>
    /\ call.result = <<"y">>

-----------------------------------------------------------------------------
(* statistics.ts sortStatistics: the order of the rows of a statistics run *)

\* the rows sortStatistics is given: one per group, in the order in which the
\* groups were registered
unsortedStatistics ==
    calculateStatistics(statistics.data, [statistics.config EXCEPT !.sortOrder = "none"])

\* the group values in the order of their first appearance in the sheet
encounterOrder ==
    uniqueInOrder(filterNonEmpty(flatten(
        [i \in 1..Len(statistics.data.rows) |->
            groupValuesOf(statistics.data.rows[i], statistics.config.groupByField)])))

\* C23: sortStatistics returns a permutation of the rows it is given: in the
\* order of first appearance of the groups when the order is none, by
\* aggregate value non-decreasing (asc) or non-increasing (desc) when sorting
\* by value, and by group label in ascending or descending order of the
\* string comparator when sorting by group.
C23_SortOrder ==
    statistics.stage = "done" =>
        LET results == statistics.results
            config == statistics.config
            ordered(a, b) ==
                IF config.sortBy = "value"
                THEN ~below(b.aggregateValue, a.aggregateValue)
                ELSE localeCompare(a.groupValue, b.groupValue) <= 0
        IN /\ Len(results) = Len(unsortedStatistics)
           /\ \A r \in Range(results) \cup Range(unsortedStatistics) :
                occurrences(results, r) = occurrences(unsortedStatistics, r)
           /\ config.sortOrder = "none" =>
                [i \in 1..Len(results) |-> results[i].groupValue] = encounterOrder
           /\ config.sortOrder = "asc" =>
                \A i, j \in 1..Len(results) : i < j => ordered(results[i], results[j])
           /\ config.sortOrder = "desc" =>
                \A i, j \in 1..Len(results) : i < j => ordered(results[j], results[i])

\* two groups whose sums, sorted by value in descending order, change places
C23_Witness ==
    /\ statistics.stage = "done"
    /\ statistics.config.aggregateType = "sum"
    /\ statistics.config.sortBy = "value"
    /\ statistics.config.sortOrder = "desc"
    /\ Len(statistics.results) = 2
    /\ below(statistics.results[2].aggregateValue, statistics.results[1].aggregateValue)
    /\ encounterOrder = << statistics.results[2].groupValue, statistics.results[1].groupValue >>

-----------------------------------------------------------------------------
(* helpers.ts getSamples within buildColumns: the sample of a column *)

MaxSampleRows == 4

\* a row of a one-column sheet: without the column, or with a cell that is
\* empty, blank, or holds a value with or without surrounding blanks
SampleCells == { <<>>, <<" ">>, <<"a">>, <<"b">>, <<" ", "c">> }
SampleRowsOf == { <<>> } \cup { << [k |-> BeiZhu, v |-> cell] >> : cell \in SampleCells }

InitSamples ==
    /\ \E n \in 1..MaxSampleRows : \E rows \in [1..n -> SampleRowsOf] :
          call = [fn |-> "buildColumns", stage |-> "input", rows |-> rows,
                  headerOrder |-> <<BeiZhu>>, result |-> <<>>]
    /\ EmptyWorkspace
    /\ pipeline = None
    /\ roundTrip = None
    /\ layout = None
    /\ comparison = None
    /\ subtract = None
    /\ statistics = None

RunSamples ==
    /\ call.fn = "buildColumns"
    /\ call.stage = "input"
    /\ call' = [call EXCEPT !.stage = "done",
                            !.result = buildColumns(call.rows, call.headerOrder)]
    /\ UNCHANGED <<workspace, pipeline, roundTrip, layout, comparison, subtract, statistics>>

NextSamples == RunSamples

SpecSamples == InitSamples /\ [][NextSamples]_vars

\* the non-empty sanitized values of a column, in row order
nonEmptyValuesOf(rows, key) ==
    filterNonEmpty([i \in 1..Len(rows) |-> sanitizeValue(get(rows[i], key))])

\* C24: the sample of every column built by buildColumns is the first up to
\* three non-empty sanitized values of the column in row order, so a column
\* with a non-empty value in some row has a non-empty sample.
C24_FirstNonEmptyValues ==
    (call.fn = "buildColumns" /\ call.stage = "done") =>
        \A i \in 1..Len(call.result) :
            LET values == nonEmptyValuesOf(call.rows, call.result[i].key)
            IN /\ call.result[i].sample =
                    SubSeq(values, 1, IF Len(values) < SampleTake THEN Len(values)
                                      ELSE SampleTake)
               /\ values # <<>> => call.result[i].sample # <<>>

-----------------------------------------------------------------------------
(* Sessions that start after a first import: handleFileChange racing with
   resetWorkspace *)

\* the workspace after handleFileChange on a fresh App in the given mode
importedApp(file, mode) ==
    LET nextColumns == buildColumns(file.rows, file.headers)
    IN [columns |-> nextColumns, rawRows |-> file.rows,
        fields |-> buildImportedFieldLayout(nextColumns, file.rows, 1),
        rows |-> <<>>, importMode |-> mode]

InitImported ==
    /\ \E file \in ImportFiles, mode \in {"replace", "append"} :
          /\ app = importedApp(file, mode)
          /\ nextId = 1 + Len(app.columns)
                        + Len(buildDefaultFields(app.columns, app.rawRows, 0))
    /\ parsing = NotParsing
    /\ steps = 0
    /\ lastEdit = NoEdit
    /\ toast = NoToast
    /\ call = None
    /\ pipeline = None
    /\ roundTrip = None
    /\ layout = None
    /\ comparison = None
    /\ subtract = None
    /\ statistics = None

\* the handlers that read or write rawRows, importMode and the pending parse
NextImported ==
    \/ \E mode \in {"replace", "append"} : setImportMode(mode)
    \/ \E file \in ImportFiles : handleFileChange(file)
    \/ handleFileChangeResumed
    \/ resetWorkspace

SpecImported == InitImported /\ [][NextImported]_vars

\* C25: rawRows never regains a row it has lost: every row of rawRows after a
\* step was in rawRows before it or is a row of the file whose parse the step
\* completes. After resetWorkspace rawRows is empty, so no row imported
\* before the reset is in rawRows again, whatever import was in flight.
C25_NoRowReturns ==
    [][\A i \in 1..Len(app'.rawRows) :
          \/ app'.rawRows[i] \in Range(app.rawRows)
          \/ parsing.isParsing /\ app'.rawRows[i] \in Range(parsing.file.rows)]_vars

-----------------------------------------------------------------------------
(* The comparison panel of App: handleCompareFileChange, handleRunComparison,
   resetComparison, with the parses of the picked files in flight *)

\* the number of handleCompareFileChange calls awaiting their file at a time
MaxPending == 2

NoSheet == [headers |-> <<>>, rows |-> <<>>]
NoResult == [stage |-> "null"]

\* what parseFileToSheetData makes of a picked file: a sheet, null (no header
\* or no rows), or an exception
CompareFiles ==
    { [outcome |-> "parsed",
       sheet |-> [headers |-> <<JiaoYuId, BeiZhu>>,
                  rows |-> <<KeyedRow(<<"2">>, <<"x">>)>>]],
      [outcome |-> "parsed",
       sheet |-> [headers |-> <<BeiZhu>>, rows |-> << <<[k |-> BeiZhu, v |-> <<"y">>]>> >>]],
      [outcome |-> "null", sheet |-> NoSheet],
      [outcome |-> "error", sheet |-> NoSheet] }

\* useMemo, lines 123-128
compareKeyOptions(compareSheets) ==
    IF compareSheets.base = NoSheet \/ compareSheets.target = NoSheet THEN <<>>
    ELSE SelectSeq(compareSheets.base.headers,
                   LAMBDA header : listIncludes(compareSheets.target.headers, header))

\* useEffect, lines 202-229: the compare key after a render with these sheets
syncedCompareKey(compareSheets, compareKey) ==
    LET options == compareKeyOptions(compareSheets)
        primary == SelectSeq(options, LAMBDA header :
                       toLowerCase(normalizeKey(header)) = toLowerCase(PRIMARY_FIELD_NAME))
    IN IF compareSheets.base = NoSheet \/ compareSheets.target = NoSheet THEN <<>>
       ELSE IF compareKey # <<>> /\ listIncludes(compareSheets.base.headers, compareKey)
                                 /\ listIncludes(compareSheets.target.headers, compareKey)
       THEN compareKey
       ELSE IF options = <<>> THEN <<>>
       ELSE IF primary # <<>> THEN primary[1] ELSE options[1]

InitPanel ==
    /\ comparison = [stage |-> "panel", compareLoading |-> "null", pending |-> <<>>,
                     compareSheets |-> [base |-> NoSheet, target |-> NoSheet],
                     compareKey |-> <<>>, comparisonResult |-> NoResult]
    /\ EmptyWorkspace
    /\ call = None
    /\ pipeline = None
    /\ roundTrip = None
    /\ layout = None
    /\ subtract = None
    /\ statistics = None

\* handleCompareFileChange up to its await: the input of a side is disabled
\* while compareLoading is that side
handleCompareFileChange(side, file) ==
    /\ comparison.stage = "panel"
    /\ comparison.compareLoading # side
    /\ Len(comparison.pending) < MaxPending
    /\ comparison' = [comparison EXCEPT
           !.compareLoading = side,
           !.pending = Append(@, [side |-> side, file |-> file])]
    /\ UNCHANGED <<workspace, pipeline, roundTrip, layout, subtract, statistics, call>>

\* handleCompareFileChange after parseFileToSheetData settled, lines 660-681
handleCompareFileChangeResumed(p) ==
    /\ comparison.stage = "panel"
    /\ p \in 1..Len(comparison.pending)
    /\ LET parse == comparison.pending[p]
           rest == [i \in 1..(Len(comparison.pending) - 1) |->
                       comparison.pending[IF i < p THEN i ELSE i + 1]]
           sheets == IF parse.file.outcome = "parsed"
                     THEN [comparison.compareSheets EXCEPT ![parse.side] = parse.file.sheet]
                     ELSE comparison.compareSheets
       IN comparison' = [comparison EXCEPT
              !.pending = rest,
              !.compareSheets = sheets,
              !.compareKey = syncedCompareKey(sheets, @),
              !.comparisonResult = IF parse.file.outcome = "parsed" THEN NoResult ELSE @,
              !.compareLoading = "null"]
    /\ UNCHANGED <<workspace, pipeline, roundTrip, layout, subtract, statistics, call>>

\* the run-comparison button, lines 1641-1647
runComparisonEnabled == comparison.compareKey # <<>> /\ comparison.compareLoading = "null"

handleRunComparison ==
    /\ comparison.stage = "panel"
    /\ runComparisonEnabled
    /\ comparison.compareSheets.base # NoSheet /\ comparison.compareSheets.target # NoSheet
    /\ comparison' = [comparison EXCEPT
           !.comparisonResult =
               [stage |-> "result",
                result |-> buildComparisonResult(comparison.compareSheets.base,
                               comparison.compareSheets.target, comparison.compareKey)]]
    /\ UNCHANGED <<workspace, pipeline, roundTrip, layout, subtract, statistics, call>>

\* the select of the key column, line 1632
setCompareKey(header) ==
    /\ comparison.stage = "panel"
    /\ listIncludes(compareKeyOptions(comparison.compareSheets), header)
    /\ header # comparison.compareKey
    /\ comparison' = [comparison EXCEPT !.compareKey = header]
    /\ UNCHANGED <<workspace, pipeline, roundTrip, layout, subtract, statistics, call>>

\* resetComparison, lines 710-716; its button is disabled on an empty panel
resetComparison ==
    /\ comparison.stage = "panel"
    /\ \/ comparison.compareSheets.base # NoSheet
       \/ comparison.compareSheets.target # NoSheet
       \/ comparison.comparisonResult # NoResult
    /\ comparison' = [comparison EXCEPT
           !.compareSheets = [base |-> NoSheet, target |-> NoSheet],
           !.comparisonResult = NoResult,
           !.compareKey = <<>>,
           !.compareLoading = "null"]
    /\ UNCHANGED <<workspace, pipeline, roundTrip, layout, subtract, statistics, call>>

NextPanel ==
    \/ \E side \in {"base", "target"}, file \in CompareFiles :
           handleCompareFileChange(side, file)
    \/ \E p \in 1..MaxPending : handleCompareFileChangeResumed(p)
    \/ handleRunComparison
    \/ \E header \in {JiaoYuId, BeiZhu} : setCompareKey(header)
    \/ resetComparison

SpecPanel == InitPanel /\ [][NextPanel]_vars

\* C26: while a compare-file parse is in flight compareLoading is not null,
\* so the run-comparison button is disabled until every parse has finished.
C26_LoadingWhileParsing ==
    (comparison.stage = "panel" /\ comparison.pending # <<>>) =>
        /\ comparison.compareLoading # "null"
        /\ ~runComparisonEnabled

-----------------------------------------------------------------------------
(* The toast of App: showToast and the clear-timer it schedules *)

DefaultDuration == 2600
LongDuration == 3200

\* the number of showToast calls of a session, and the milliseconds by which
\* the clock advances
MaxToasts == 3
TimeStep == 200

FuZhiChengGong == <<"fu", "zhi", "cheng", "gong">>      \* copied
ToastMessages == { FuZhiChengGong, <<"C", "S", "V">> \o <<"yi", "xia", "zai">> }

\* App as constructed; the other panels are left alone
InitToast ==
    /\ EmptyWorkspace
    /\ call = None
    /\ pipeline = None
    /\ roundTrip = None
    /\ layout = None
    /\ comparison = None
    /\ subtract = None
    /\ statistics = None

\* window.clearTimeout(id) on the timers pending
clearTimeout(timers, id) == { t \in timers : t.id # id }

\* a showToast that schedules its timer without clearing the pending one
showToast_noClear(message, duration) ==
    /\ toast.calls < MaxToasts
    /\ toast' = [toast EXCEPT
           !.message = message,
           !.timerRef = toast.calls + 1,
           !.timers = @ \cup {[id |-> toast.calls + 1, due |-> toast.now + duration]},
           !.calls = @ + 1]
    /\ UNCHANGED <<app, parsing, steps, nextId, lastEdit, harnesses>>

\* showToast, lines 182-193; window.setTimeout hands out increasing ids
showToast(message, duration) ==
    /\ toast.calls < MaxToasts
    /\ toast' = [toast EXCEPT
           !.message = message,
           !.timerRef = toast.calls + 1,
           !.timers = (IF toast.timerRef # 0 THEN clearTimeout(@, toast.timerRef) ELSE @)
                          \cup {[id |-> toast.calls + 1, due |-> toast.now + duration]},
           !.calls = @ + 1]
    /\ UNCHANGED <<app, parsing, steps, nextId, lastEdit, harnesses>>

\* time advances while a timer is pending and none is due
timePasses ==
    /\ toast.timers # {}
    /\ \A t \in toast.timers : toast.now < t.due
    /\ toast' = [toast EXCEPT !.now = @ + TimeStep]
    /\ UNCHANGED <<app, parsing, steps, nextId, lastEdit, harnesses>>

\* the callback of lines 189-192 when its timer is due
timerFires(t) ==
    /\ t \in toast.timers
    /\ t.due <= toast.now
    /\ toast' = [toast EXCEPT !.message = <<>>, !.timerRef = 0, !.timers = @ \ {t}]
    /\ UNCHANGED <<app, parsing, steps, nextId, lastEdit, harnesses>>

someTimerFires == \E t \in toast.timers : timerFires(t)

NextToast ==
    \/ \E message \in ToastMessages, duration \in {DefaultDuration, LongDuration} :
           showToast(message, duration)
    \/ timePasses
    \/ someTimerFires

SpecToast == InitToast /\ [][NextToast]_vars

\* the clock advances and a due timer runs
SpecToastLive == SpecToast /\ WF_vars(timePasses) /\ WF_vars(someTimerFires)

atMostOneTimer == Cardinality(toast.timers) <= 1

\* a step that empties the message runs the timer of the latest showToast
clearedByOwnTimer ==
    (toast.message # <<>> /\ toast'.message = <<>>) =>
        \E t \in toast.timers : t.id = toast.calls /\ t \notin toast'.timers

\* the message of the n-th showToast is emptied unless showToast runs again
eventuallyCleared ==
    \A n \in 1..MaxToasts :
        (toast.calls = n) ~> (toast.message = <<>> \/ toast.calls > n)

\* C28: across showToast calls and timer firings at most one clear-timer is
\* pending, the timer of an earlier showToast never empties the message of a
\* later one, and after the last showToast the message eventually becomes
\* empty.
C28_ToastTimer ==
    /\ []atMostOneTimer
    /\ [][clearedByOwnTimer]_vars
    /\ eventuallyCleared

\* a second showToast ran before the timer of the first could fire, and its
\* message is still shown when the first timer would have been due
C28_Witness ==
    /\ toast.calls = 2
    /\ toast.message # <<>>
    /\ toast.now >= LongDuration
    /\ \E t \in toast.timers : t.id = 2 /\ t.due < 2 * DefaultDuration

=============================================================================
